---- MODULE Spec2Model ----
(***************************************************************************)
(* Iteration / state-coordination protocol of the GitHub agent system:     *)
(* the coder turn (run_from_plan.run_coder_async), the iteration tracker   *)
(* (labels iteration-N), the reviewer turn (run_reviewer_async) and the    *)
(* watcher poll loop (scripts/watcher.py), over an abstract GitHub         *)
(* repository holding one issue, its comments, labels and pull requests.   *)
(***************************************************************************)
EXTENDS Integers, Sequences, FiniteSets, TLC

VARIABLES
    gh,      \* the repository as GitHub stores it: labels, comments, PRs, branches
    watcher, \* the poll loop: where it is, its state dict, .watcher_state.json
    turn,    \* what the most recent agent turn read and did (history variable)
    hist     \* counters over the whole run (history variable)

vars == <<gh, watcher, turn, hist>>

(***************************************************************************)
(* Program constants.                                                      *)
(***************************************************************************)
MAX_DEV_ITERATIONS == 5
MAX_ITERATIONS == 5

\* The issue under automation and the first number GitHub gives to a PR.
ISSUE == 1
FirstPrNumber == 2

(***************************************************************************)
(* Bounds of the model.                                                    *)
(***************************************************************************)
MaxCoderTurns == 7
MaxPlanComments == 1
MaxPrs == 2
MaxBranches == 2
MaxRemoveFailures == 1
MaxReviewerTurns == 1
MaxCycles == 3
MaxCrashes == 1
MaxMishaps == 1
MaxTurnsAlone == 1
MaxListedPrs == 2
MaxSupplied == 3
MaxCreatedAt == 3
MaxText == 3
MaxStepText == 2
MaxContent == 3
RecursionLimit == 2
MaxToolCalls == 2
MaxPathLen == 2
MaxFileCalls == 2
MaxReviewCycles == 7
MaxKeys == 2
MaxCursor == 1
MaxPollCycles == 2
MaxIssues == 3
MaxIssueCycles == 3
MaxPlanSteps == 2
MaxGitCalls == 5
MaxFeedbackComments == 1
MaxFeedbackCycles == 1

Range(s) == {s[i] : i \in 1..Len(s)}

(***************************************************************************)
(* Labels.  A label name is kept as its prefix and the text after the      *)
(* first "-": suf >= 0 is a base-10 integer, suf = -1 is text that int()   *)
(* rejects.                                                                *)
(***************************************************************************)
ITERATION_LABEL_PREFIX == "iteration-"

IterationLabel(n) == [pre |-> ITERATION_LABEL_PREFIX, suf |-> n]
BugLabel == [pre |-> "bug", suf |-> -1]

IsIterationLabel(l) == l.pre = ITERATION_LABEL_PREFIX

IterationLabels(labels) == {l \in Range(labels) : IsIterationLabel(l)}

\* for label in labels: if startswith(prefix): try: return int(...) except: pass
\* return 0
RECURSIVE FirstIterationFrom(_, _, _)
FirstIterationFrom(labels, i, default) ==
    IF i > Len(labels) THEN default
    ELSE IF IsIterationLabel(labels[i]) /\ labels[i].suf >= 0 THEN labels[i].suf
    ELSE FirstIterationFrom(labels, i + 1, default)

_get_iteration_count(labels) == FirstIterationFrom(labels, 1, 0)

\* GitHubClient.remove_issue_label: the DELETE either takes the label off or
\* raises, and every exception is swallowed (the label then stays).
remove_issue_label(labels, label, raises) ==
    IF raises THEN labels
    ELSE SelectSeq(labels, LAMBDA l : l # label)

\* GitHubClient.add_issue_label: adding a label the issue carries changes nothing.
add_issue_label(labels, label) ==
    IF label \in Range(labels) THEN labels ELSE Append(labels, label)

\* for label in labels (the list read at entry): remove each iteration label;
\* then add iteration-<new_count>.  rmFail: the labels whose DELETE raises.
RECURSIVE RemoveIterationLabels(_, _, _, _)
RemoveIterationLabels(snapshot, i, labels, rmFail) ==
    IF i > Len(snapshot) THEN labels
    ELSE IF IsIterationLabel(snapshot[i])
         THEN RemoveIterationLabels(snapshot, i + 1,
                  remove_issue_label(labels, snapshot[i], snapshot[i] \in rmFail),
                  rmFail)
         ELSE RemoveIterationLabels(snapshot, i + 1, labels, rmFail)

_update_iteration_count(labels, new_count, rmFail) ==
    add_issue_label(RemoveIterationLabels(labels, 1, labels, rmFail),
                    IterationLabel(new_count))

(***************************************************************************)
(* Comments.  A body is kept as what its readers look at: which marker it  *)
(* holds and what its fenced json block decodes to.  GitHub numbers the    *)
(* comments in the order they are created, so the creation time of a       *)
(* comment is kept as its rank in that order.                              *)
(***************************************************************************)
PLAN_MARKER == "<!-- planner-agent-plan -->"
REVIEWER_FEEDBACK_MARKER == "<!-- reviewer-agent-feedback -->"
NoMarker == ""

\* block: "none" no fenced json block, "invalid" not JSON, "empty" the object {},
\* "object" a JSON object with keys.
Comment(g, on, marker, block, status, iteration) ==
    [id |-> Len(g.comments) + 1, on |-> on, at |-> Len(g.comments) + 1, marker |-> marker,
     block |-> block,
     status |-> status, iteration |-> iteration, max_iterations |-> MAX_ITERATIONS]

PostComment(g, on, marker, block, status, iteration) ==
    [g EXCEPT !.comments = Append(@, Comment(g, on, marker, block, status, iteration))]

\* GitHubClient.list_issue_comments / list_pr_comments
list_issue_comments(g, n) == SelectSeq(g.comments, LAMBDA c : c.on = n)

\* sorted(comments, key=created_at, reverse=True): a stable sort, so comments of
\* one creation time keep the order they were listed in.
RECURSIVE SortedByCreatedDesc(_)
SortedByCreatedDesc(cs) ==
    IF cs = <<>> THEN <<>>
    ELSE LET top == CHOOSE i \in 1..Len(cs) :
                        /\ \A j \in 1..Len(cs) : cs[j].at <= cs[i].at
                        /\ \A j \in 1..(i - 1) : cs[j].at < cs[i].at
             rest == [k \in 1..(Len(cs) - 1) |-> IF k < top THEN cs[k] ELSE cs[k + 1]]
         IN <<cs[top]>> \o SortedByCreatedDesc(rest)

\* _extract_plan: None without the marker, without a fenced block, or when the
\* block is not JSON; otherwise the decoded object.
_extract_plan(c) ==
    IF c.marker # PLAN_MARKER THEN "None"
    ELSE IF c.block = "none" THEN "None"
    ELSE IF c.block = "invalid" THEN "None"
    ELSE c.block

\* `if parsed:` an empty dict is falsy, like None.
TruthyMutant(parsed) == TRUE
Truthy(parsed) == parsed \notin {"None", "empty"}

RECURSIVE FirstPlan(_, _)
FirstPlan(cs, i) ==
    IF i > Len(cs) THEN "None"
    ELSE IF Truthy(_extract_plan(cs[i])) THEN _extract_plan(cs[i])
    ELSE FirstPlan(cs, i + 1)

_load_latest_plan(comments) == FirstPlan(SortedByCreatedDesc(comments), 1)

(***************************************************************************)
(* Pull requests and branches.  A head ref coder-agent/issue-<n>-<hex> is  *)
(* kept as the pair (n, hex).                                              *)
(***************************************************************************)
Branch(n, suffix) == [issue |-> n, suffix |-> suffix]
NoBranch == [issue |-> 0, suffix |-> 0]

RECURSIVE SortedByUpdatedDesc(_)
SortedByUpdatedDesc(ps) ==
    IF ps = <<>> THEN <<>>
    ELSE LET top == CHOOSE i \in 1..Len(ps) :
                        /\ \A j \in 1..Len(ps) : ps[j].updated_at <= ps[i].updated_at
                        /\ \A j \in 1..(i - 1) : ps[j].updated_at < ps[i].updated_at
             rest == [k \in 1..(Len(ps) - 1) |-> IF k < top THEN ps[k] ELSE ps[k + 1]]
         IN <<ps[top]>> \o SortedByUpdatedDesc(rest)

\* GitHubClient.list_pull_requests(state="open"): sort="updated", direction="desc"
list_pull_requests(g) == SortedByUpdatedDesc(SelectSeq(g.prs, LAMBDA p : p.open))

RECURSIVE FirstHeadFor(_, _, _)
FirstHeadFor(ps, n, i) ==
    IF i > Len(ps) THEN NoBranch
    ELSE IF ps[i].head.issue = n THEN ps[i].head
    ELSE FirstHeadFor(ps, n, i + 1)

\* the head ref of the first open PR whose head starts with coder-agent/issue-<n>-
_find_existing_branch(g, n) == FirstHeadFor(list_pull_requests(g), n, 1)

HeadOfPr(g, number) ==
    LET hit == SelectSeq(g.prs, LAMBDA p : p.number = number)
    IN IF hit = <<>> THEN NoBranch ELSE hit[1].head

\* lines 103-108: the PR's head in CI-fix mode with a PR number, else the search
ExistingBranch(g, mode) ==
    IF mode.ci_fix /\ mode.pr_number # 0 THEN HeadOfPr(g, mode.pr_number)
    ELSE _find_existing_branch(g, ISSUE)

\* GitHub stamps a PR's updated_at at every change of the PR: gh.clock is the
\* time of the latest such change, and each change takes the next tick.
Touch(g, number) ==
    [g EXCEPT !.prs = [i \in 1..Len(g.prs) |->
                          IF g.prs[i].number = number
                          THEN [g.prs[i] EXCEPT !.updated_at = g.clock + 1]
                          ELSE g.prs[i]],
              !.clock = @ + 1]

\* git push: the branch exists on the remote; an open PR with that head is updated.
Pushed(g, branch) ==
    LET hit == {i \in 1..Len(g.prs) : g.prs[i].open /\ g.prs[i].head = branch}
        g1 == [g EXCEPT !.branches = @ \cup {branch}]
    IN IF hit = {} THEN g1 ELSE Touch(g1, g.prs[CHOOSE i \in hit : TRUE].number)

\* GitHubClient.create_pull_request; the body names the issue as "#<n>".
create_pull_request(g, head, n) ==
    [g EXCEPT !.prs = Append(@, [number |-> g.nextNum, head |-> head, ref |-> n,
                                 updated_at |-> g.clock + 1, open |-> TRUE]),
              !.nextNum = @ + 1,
              !.clock = @ + 1]

(***************************************************************************)
(* The coder turn: run_from_plan.run_coder_async.  A turn works on         *)
(* w = [g |-> repository, t |-> record of the turn]; t.trace is the order  *)
(* of the pipeline steps taken and t.posted the comments posted.           *)
(***************************************************************************)
NoTurn ==
    [kind |-> "none", entry |-> "", raised |-> FALSE, temp |-> "none",
     commit |-> "none", plan |-> FALSE, before |-> <<>>, current |-> 0, passed |-> FALSE,
     trace |-> <<>>, posted |-> <<>>, branch |-> NoBranch, is_update |-> FALSE,
     pr |-> 0, pr_checks |-> <<>>, ci_fetched |-> FALSE, llm |-> "", llm_issues |-> <<>>,
     ci_failing |-> FALSE, iteration |-> 0, status |-> "", issues |-> <<>>,
     event |-> "", issue_fetched |-> FALSE, diff_summary |-> "", ci_status |-> ""]

Step(w, s) == [w EXCEPT !.t.trace = Append(@, s)]

\* client.comment_issue(issue.number, <text>): text names which message it is.
comment_issue(w, text) ==
    [w EXCEPT !.g = PostComment(w.g, ISSUE, NoMarker, "none", "", 0),
              !.t.posted = Append(@, text),
              !.t.trace = Append(@, "comment")]

\* an exception leaves the function: no statement after it is run, except the
\* finally block
Raise(w) == [w EXCEPT !.t.raised = TRUE]

\* a comment_issue call that ends the try block; the provider call can raise
Report(w, in, text) ==
    IF in.raise_at = "outcome" THEN Raise(w) ELSE comment_issue(w, text)

\* tempfile.mkdtemp(prefix="coder_agent_")
Mkdtemp(w) == [Step(w, "mkdtemp") EXCEPT !.t.temp = "made"]

\* the removal written after the try block instead of in a finally block
FinallyMutant(w, in) ==
    IF w.t.raised THEN w
    ELSE [Step(w, "rmtree") EXCEPT !.t.temp = IF in.rmtree_ok THEN "removed" ELSE "left"]

\* finally: try: shutil.rmtree(temp_dir) except Exception: pass
Finally(w, in) ==
    [Step(w, "rmtree") EXCEPT !.t.temp = IF in.rmtree_ok THEN "removed" ELSE "left"]

\* _git_commit: git add -A, git status --porcelain, git commit; False when a
\* command fails and when the tree is clean
_git_commit(in) ==
    IF ~in.add_ok THEN FALSE
    ELSE IF ~in.dirty THEN FALSE
    ELSE IF ~in.commit_ok THEN FALSE
    ELSE TRUE

\* which of the three commands ended _git_commit
CommitState(in) ==
    IF ~in.add_ok THEN "add_failed"
    ELSE IF ~in.dirty THEN "clean"
    ELSE IF ~in.commit_ok THEN "commit_failed"
    ELSE "committed"

\* the turn going on to the PR after a push that failed
CommitAndPublishMutant(w, in, branch_name, is_update) ==
    LET w1 == Step([w EXCEPT !.t.branch = branch_name, !.t.is_update = is_update,
                             !.t.commit = CommitState(in)],
                   "commit")
        w2 == Step(w1, "push")
        w3 == IF in.push_ok THEN [w2 EXCEPT !.g = Pushed(w2.g, branch_name)] ELSE w2
        w4 == Step(w3, "create_pr")
    IN IF ~_git_commit(in) THEN Report(w1, in, "completed but made no changes")
       ELSE IF is_update /\ in.push_ok THEN Report(w3, in, "pushed fixes")
       ELSE IF in.pr_ok /\ in.push_ok
       THEN Report([w4 EXCEPT !.g = create_pull_request(w4.g, branch_name, ISSUE)],
                   in, "completed implementation")
       ELSE Report(w4, in, "pushed changes but failed to create PR")

\* lines 180-261: commit, push, PR creation and the outcome comment
CommitAndPublish(w, in, branch_name, is_update) ==
    LET w1 == Step([w EXCEPT !.t.branch = branch_name, !.t.is_update = is_update,
                             !.t.commit = CommitState(in)],
                   "commit")
    IN IF _git_commit(in)
       THEN LET w2 == Step(w1, "push")
            IN IF in.push_ok
               THEN LET w3 == [w2 EXCEPT !.g = Pushed(w2.g, branch_name)]
                    IN IF is_update
                       THEN Report(w3, in, "pushed fixes")
                       ELSE LET w4 == Step(w3, "create_pr")
                            IN IF in.pr_ok
                               THEN Report(
                                        [w4 EXCEPT !.g = create_pull_request(w4.g, branch_name, ISSUE)],
                                        in, "completed implementation")
                               ELSE Report(w4, in, "pushed changes but failed to create PR")
               ELSE Report(w2, in, "failed to push changes")
       ELSE Report(w1, in, "completed but made no changes")

\* lines 171-178: index the clone and run the agent; run_coder_agent_async
\* turns a failure of the agent run into a summary, while building the index
\* or the agent can raise
RunAgent(w, in, branch_name, is_update) ==
    IF in.raise_at = "agent" THEN Raise(Step(w, "agent"))
    ELSE CommitAndPublish(Step(w, "agent"), in, branch_name, is_update)

\* secrets.token_hex(4): a suffix no branch of the repository carries yet
token_hex(g) == Cardinality(g.branches) + 1

\* the entrypoints that run this pipeline: run_from_plan.run_coder_async,
\* coder_agent/agent.run_coder_async and the runner of agents/coder_agent
EntryPoints == {"run_from_plan", "agent", "runner"}

\* only run_from_plan looks at is_ci_fix_mode when it picks the branch and when
\* the checkout fails; agent.py (lines 403-404, 428-439) and the runner do not
CiFixAware(entry) == entry = "run_from_plan"

\* lines 103-108, or agent.py line 403
BranchToUpdate(g, in) ==
    IF CiFixAware(in.entry) THEN ExistingBranch(g, in)
    ELSE _find_existing_branch(g, ISSUE)

\* lines 139-169: check out the existing branch or create a new one
HandleBranching(w, in, existing_branch, is_update) ==
    LET fresh == Branch(ISSUE, token_hex(w.g))
    IN IF is_update /\ existing_branch # NoBranch
       THEN LET w1 == Step(w, "checkout")
            IN IF ~in.checkout_ok
               THEN IF in.ci_fix /\ CiFixAware(in.entry)
                    THEN Report(w1, in, "failed to checkout existing branch")
                    ELSE LET w2 == Step(w1, "create_branch")
                         IN IF ~in.create_ok
                            THEN Report(w2, in, "failed to create branch")
                            ELSE RunAgent(w2, in, fresh, FALSE)
               ELSE RunAgent(w1, in, existing_branch, is_update)
       ELSE LET w1 == Step(w, "create_branch")
            IN IF ~in.create_ok
               THEN Report(w1, in, "failed to create branch")
               ELSE RunAgent(w1, in, fresh, is_update)

\* lines 115-261: the try block: clone url, announce, clone, branch, agent, publish
Try(w, in, existing_branch, is_update) ==
    IF in.raise_at = "get_clone_url" THEN Raise(w)
    ELSE LET w2 == IF is_update THEN comment_issue(w, "continuing implementation")
                   ELSE comment_issue(w, "starting implementation")
             w3 == Step(w2, "clone")
         IN IF ~in.clone_ok
            THEN Report(w3, in, "failed to clone repository")
            ELSE HandleBranching(w3, in, existing_branch, is_update)

\* lines 102-115 and 263-267: find the branch, make the temp dir, try, finally
Pipeline(w, in) ==
    LET existing_branch == BranchToUpdate(w.g, in)
        is_update == existing_branch # NoBranch
    IN Finally(Try(Mkdtemp(w), in, existing_branch, is_update), in)

\* line 80: the iteration ceiling
GuardMutant(new_iteration) == new_iteration > MAX_DEV_ITERATIONS + 1
Guard(new_iteration) == new_iteration > MAX_DEV_ITERATIONS

\* lines 60-100
run_coder_async(g, in) ==
    LET plan == _load_latest_plan(list_issue_comments(g, ISSUE))
        current_iteration == _get_iteration_count(g.labels)
        new_iteration == current_iteration + 1
        w0 == [g |-> g,
               t |-> [NoTurn EXCEPT !.kind = "coder", !.entry = in.entry,
                                    !.before = g.labels, !.plan = Truthy(plan)]]
    IN IF ~Truthy(plan)
       THEN comment_issue(w0, "could not find a plan")
       ELSE LET w1 == [w0 EXCEPT !.t.current = current_iteration]
            IN IF Guard(new_iteration)
               THEN comment_issue(w1, "Maximum iterations reached")
               ELSE Pipeline([w1 EXCEPT !.g.labels = _update_iteration_count(@, new_iteration, in.rm_fail),
                                        !.t.passed = TRUE],
                             in)

(***************************************************************************)
(* What a coder turn meets: the mode it is started in and how each git or  *)
(* provider step ends.  A flag that the turn never reads (a step after the *)
(* one that failed) is held FALSE, so each outcome is drawn once.          *)
(***************************************************************************)
PrNumbers(g) == {g.prs[i].number : i \in 1..Len(g.prs)}

Flags(clone, checkout, create, changes, push, pr) ==
    [clone_ok |-> clone, checkout_ok |-> checkout, create_ok |-> create,
     has_changes |-> changes, push_ok |-> push, pr_ok |-> pr]

\* after the branch is ready: nothing to commit, push fails, push succeeds
Publishing(checkout, create, creates_pr) ==
    {Flags(TRUE, checkout, create, FALSE, FALSE, FALSE),
     Flags(TRUE, checkout, create, TRUE, FALSE, FALSE)}
    \cup {Flags(TRUE, checkout, create, TRUE, TRUE, pr) :
             pr \in IF creates_pr THEN BOOLEAN ELSE {FALSE}}

StepOutcomes(has_existing, ci_fix) ==
    {Flags(FALSE, FALSE, FALSE, FALSE, FALSE, FALSE)}
    \cup (IF has_existing
          THEN Publishing(TRUE, FALSE, FALSE)
               \cup {Flags(TRUE, FALSE, FALSE, FALSE, FALSE, FALSE)}
               \cup (IF ci_fix THEN {} ELSE Publishing(FALSE, TRUE, TRUE))
          ELSE {Flags(TRUE, FALSE, FALSE, FALSE, FALSE, FALSE)}
               \cup Publishing(FALSE, TRUE, TRUE))

Modes(g) ==
    {[ci_fix |-> FALSE, pr_number |-> 0]}
    \cup {[ci_fix |-> TRUE, pr_number |-> n] : n \in {0} \cup PrNumbers(g)}

\* a turn of run_from_plan in which git add and git commit work, no provider
\* call raises and the temp dir can be removed
CoderInput(mode, o, rm_fail) ==
    [entry |-> "run_from_plan", ci_fix |-> mode.ci_fix, pr_number |-> mode.pr_number,
     clone_ok |-> o.clone_ok, checkout_ok |-> o.checkout_ok, create_ok |-> o.create_ok,
     add_ok |-> TRUE, dirty |-> o.has_changes, commit_ok |-> TRUE,
     push_ok |-> o.push_ok, pr_ok |-> o.pr_ok,
     raise_at |-> "none", rmtree_ok |-> TRUE,
     rm_fail |-> rm_fail]

PlanExists(g) == Truthy(_load_latest_plan(list_issue_comments(g, ISSUE)))

ReachesPipeline(g) ==
    /\ PlanExists(g)
    /\ ~Guard(_get_iteration_count(g.labels) + 1)

CoderInputs(g) ==
    IF ReachesPipeline(g)
    THEN UNION {{CoderInput(mode, o, rm_fail) :
                    o \in StepOutcomes(ExistingBranch(g, mode) # NoBranch, mode.ci_fix),
                    rm_fail \in {{}} \cup {{l} : l \in IterationLabels(g.labels)}} :
                mode \in Modes(g)}
    ELSE {CoderInput([ci_fix |-> FALSE, pr_number |-> 0],
                     Flags(FALSE, FALSE, FALSE, FALSE, FALSE, FALSE), {})}

InitGh ==
    [labels |-> <<BugLabel>>, comments |-> <<>>, prs |-> <<>>, branches |-> {},
     reviews |-> <<>>, clock |-> 0, nextNum |-> FirstPrNumber]

InitHist ==
    [coder_turns |-> 0, passed |-> 0, plan_comments |-> 0, rm_failures |-> 0,
     reviewer_turns |-> 0, planned |-> 0, coded |-> <<>>, reviewed |-> <<>>,
     reviewed_at |-> {}, pushed_to |-> {}, terminal |-> FALSE, mishaps |-> 0, cycles |-> 0,
     crashes |-> 0]

\* the state dict of scripts/watcher.py; 0 stands for an absent key
EmptyState ==
    [last_issue_created_at |-> 0, last_seen_plans |-> <<>>,
     last_seen_pr_updates |-> <<>>, last_seen_feedback |-> <<>>]

InitWatcher == [pc |-> "issues", state |-> EmptyState, file |-> EmptyState]

(***************************************************************************)
(* SpecCoder: sequential coder turns on the issue, started at any time and *)
(* in any mode, between planner turns and comments that quote the marker.  *)
(***************************************************************************)
InitCoder ==
    /\ gh = InitGh
    /\ watcher = InitWatcher
    /\ turn = NoTurn
    /\ hist = InitHist

CoderTurn ==
    /\ hist.coder_turns < MaxCoderTurns
    /\ \E in \in CoderInputs(gh) :
          LET w == run_coder_async(gh, in)
              failed == IF in.rm_fail = {} THEN 0 ELSE 1
          IN /\ hist.rm_failures + failed <= MaxRemoveFailures
             /\ Len(w.g.prs) <= MaxPrs
             /\ Cardinality(w.g.branches) <= MaxBranches
             /\ gh' = w.g
             /\ turn' = w.t
             /\ hist' = [hist EXCEPT !.coder_turns = @ + 1,
                                     !.passed = IF w.t.passed THEN @ + 1 ELSE @,
                                     !.rm_failures = @ + failed]
             /\ UNCHANGED watcher

\* run_planner_async: the plan comment (marker, lines, fenced JSON of the plan)
run_planner_async(g) == PostComment(g, ISSUE, PLAN_MARKER, "object", "", 0)

PlannerTurn ==
    /\ hist.plan_comments < MaxPlanComments
    /\ gh' = run_planner_async(gh)
    /\ turn' = [NoTurn EXCEPT !.kind = "planner"]
    /\ hist' = [hist EXCEPT !.plan_comments = @ + 1]
    /\ UNCHANGED watcher

NextCoder == CoderTurn \/ PlannerTurn

SpecCoder == InitCoder /\ [][NextCoder]_vars

(***************************************************************************)
(* The reviewer turn: reviewer_agent.run_reviewer_async.                   *)
(***************************************************************************)
\* A check run as the turn looks at it: whether its name contains "reviewer"
\* (any case), its status and its conclusion.
CheckRun(reviewer, status, conclusion) ==
    [reviewer |-> reviewer, status |-> status, conclusion |-> conclusion]

\* the reviewer's count with the coder's default
reviewer_get_iteration_countMutant(labels) == FirstIterationFrom(labels, 1, 0)
\* reviewer_agent._get_iteration_count: the first iteration label that parses, else 1
reviewer_get_iteration_count(labels) == FirstIterationFrom(labels, 1, 1)

\* lines 424-429: the summary of the changed files, or the placeholder
DiffSummary(in) == IF in.diff_ok THEN "diff summary" ELSE "Could not fetch diff."

\* lines 432-439: the text on the check runs, or the placeholder
CiStatus(in) == IF in.ci_ok THEN "ci status" ELSE "Could not fetch CI status."

\* line 434: the check runs whose name does not contain "reviewer"
NotReviewerRuns(check_runs) == SelectSeq(check_runs, LAMBDA c : ~c.reviewer)

\* lines 490-493
AnyFailing(check_runs) ==
    \E i \in 1..Len(check_runs) :
        /\ check_runs[i].status = "completed"
        /\ check_runs[i].conclusion \notin {"success", "skipped", "neutral"}

ReviewDecision(status, issues) == [status |-> status, issues |-> issues]

\* run_reviewer_agent_async: the validated output of the agent, or the
\* fallback decision when the run raises.
run_reviewer_agent_async(in) ==
    IF in.agent_raises
    THEN ReviewDecision("CHANGES_REQUESTED", <<"Could not complete automated review">>)
    ELSE in.llm

ForcedApprovalNotice == "This PR exceeded the maximum iteration limit and was auto-approved."
CiFailingNotice == "CI checks are failing. Please fix before approval."

\* line 466
ForceApproveMutant(iteration) == iteration > MAX_ITERATIONS
ForceApprove(iteration) == iteration >= MAX_ITERATIONS

\* lines 481-487
ForcedApproval(decision, force_approve) ==
    IF force_approve /\ decision.status = "CHANGES_REQUESTED"
    THEN ReviewDecision("APPROVED", <<ForcedApprovalNotice>> \o decision.issues)
    ELSE decision

\* lines 494-500
CiOverrideMutant(decision, ci_failing, force_approve) ==
    IF ci_failing /\ decision.status = "APPROVED" /\ ~force_approve
    THEN ReviewDecision("CHANGES_REQUESTED", <<CiFailingNotice>> \o decision.issues)
    ELSE decision
CiOverride(decision, ci_failing, force_approve) ==
    IF ci_failing /\ decision.status = "APPROVED" /\ ~force_approve
    THEN ReviewDecision("CHANGES_REQUESTED", decision.issues \o <<CiFailingNotice>>)
    ELSE decision

\* line 518
ReviewEvent(status) == IF status = "APPROVED" THEN "APPROVE" ELSE "REQUEST_CHANGES"

\* GitHubClient.comment_pull_request: a comment on the PR changes the PR
comment_pull_request(g, number, status, iteration) ==
    Touch(PostComment(g, number, REVIEWER_FEEDBACK_MARKER, "object", status, iteration),
          number)

\* GitHubClient.create_pull_request_review
create_pull_request_review(g, number, event) ==
    Touch([g EXCEPT !.reviews = Append(@, [pr |-> number, event |-> event])], number)

PrByNumber(g, number) == (SelectSeq(g.prs, LAMBDA p : p.number = number))[1]

\* the check runs of the PR kept when they could not be fetched
FetchedCheckRunsMutant(in) == NotReviewerRuns(in.check_runs)
\* lines 432-439: the check runs the turn goes on with, none when
\* get_check_runs raises
FetchedCheckRuns(in) == IF in.ci_ok THEN NotReviewerRuns(in.check_runs) ELSE <<>>

\* lines 410-530
run_reviewer_async(g, in) ==
    LET pr == PrByNumber(g, in.pr_number)
        check_runs == FetchedCheckRuns(in)
        issue_number == pr.ref
        iteration == IF issue_number = ISSUE /\ in.issue_ok
                     THEN reviewer_get_iteration_count(g.labels)
                     ELSE 1
        force_approve == ForceApprove(iteration)
        llm == run_reviewer_agent_async(in)
        forced == ForcedApproval(llm, force_approve)
        ci_failing == AnyFailing(check_runs)
        decision == CiOverride(forced, ci_failing, force_approve)
        review_event == ReviewEvent(decision.status)
        g1 == comment_pull_request(g, pr.number, decision.status, iteration)
        g2 == IF in.review_ok THEN create_pull_request_review(g1, pr.number, review_event)
              ELSE g1
    IN [g |-> g2,
        t |-> [NoTurn EXCEPT !.kind = "reviewer", !.before = g.labels, !.pr = pr.number,
                             !.pr_checks = in.check_runs, !.ci_fetched = in.ci_ok,
                             !.llm = llm.status, !.llm_issues = llm.issues,
                             !.ci_failing = ci_failing, !.iteration = iteration,
                             !.status = decision.status, !.issues = decision.issues,
                             !.event = review_event,
                             !.issue_fetched = issue_number = ISSUE /\ in.issue_ok,
                             !.diff_summary = DiffSummary(in),
                             !.ci_status = CiStatus(in)]]

(***************************************************************************)
(* What a reviewer turn meets: the PR's check runs, the agent's decision   *)
(* and which provider calls fail.                                          *)
(***************************************************************************)
CheckRunKinds ==
    {CheckRun(FALSE, "completed", "failure"), CheckRun(FALSE, "completed", "success"),
     CheckRun(FALSE, "completed", "neutral"), CheckRun(FALSE, "completed", "skipped"),
     CheckRun(FALSE, "completed", "cancelled"), CheckRun(FALSE, "in_progress", "None"),
     CheckRun(TRUE, "completed", "failure")}

CheckRunLists ==
    {<<>>} \cup {<<c>> : c \in CheckRunKinds}
    \cup {<<c, d>> : c \in {CheckRun(FALSE, "completed", "success"),
                              CheckRun(TRUE, "completed", "failure")},
                      d \in CheckRunKinds}

LlmIssueLists == {<<>>, <<"issue A">>, <<"issue A", "issue B">>}

LlmDecisions ==
    {ReviewDecision(status, issues) :
        status \in {"APPROVED", "CHANGES_REQUESTED"}, issues \in LlmIssueLists}

ReviewerInput(pr_number, check_runs, diff_ok, ci_ok, issue_ok, agent_raises, llm,
              review_ok) ==
    [pr_number |-> pr_number, check_runs |-> check_runs, diff_ok |-> diff_ok,
     ci_ok |-> ci_ok,
     issue_ok |-> issue_ok, agent_raises |-> agent_raises, llm |-> llm,
     review_ok |-> review_ok]

\* a flag or value the turn does not read is held at one value
ReviewerInputs(g) ==
    {ReviewerInput(n, check_runs, diff_ok, ci_ok, issue_ok, agent_raises,
                   IF agent_raises THEN ReviewDecision("APPROVED", <<>>) ELSE llm,
                   review_ok) :
        n \in PrNumbers(g), check_runs \in CheckRunLists, diff_ok \in BOOLEAN,
        ci_ok \in BOOLEAN,
        issue_ok \in BOOLEAN, agent_raises \in BOOLEAN, llm \in LlmDecisions,
        review_ok \in BOOLEAN}

(***************************************************************************)
(* SpecReviewer: reviewer turns on the PR of an issue whose labels are any *)
(* the issue can carry when the review starts.                             *)
(***************************************************************************)
ReviewedLabels ==
    {<<BugLabel>>, <<IterationLabel(-1)>>}
    \cup {<<BugLabel, IterationLabel(n)>> : n \in 0..(MAX_ITERATIONS + 1)}

InitReviewer ==
    /\ \E labels \in ReviewedLabels, ref \in {0, ISSUE} :
          gh = [create_pull_request(
                    Pushed(PostComment(InitGh, ISSUE, PLAN_MARKER, "object", "", 0),
                           Branch(ISSUE, 1)),
                    Branch(ISSUE, 1), ref)
                EXCEPT !.labels = labels]
    /\ watcher = InitWatcher
    /\ turn = NoTurn
    /\ hist = InitHist

ReviewerTurn ==
    /\ hist.reviewer_turns < MaxReviewerTurns
    /\ \E in \in ReviewerInputs(gh) :
          LET w == run_reviewer_async(gh, in)
          IN /\ gh' = w.g
             /\ turn' = w.t
             /\ hist' = [hist EXCEPT !.reviewer_turns = @ + 1]
             /\ UNCHANGED watcher

NextReviewer == ReviewerTurn

SpecReviewer == InitReviewer /\ [][NextReviewer]_vars

(***************************************************************************)
(* The poll loop: scripts/watcher.py.  A check works on                    *)
(* p = [g |-> repository, t |-> last turn, h |-> history, state |-> the    *)
(* state dict] and yields the set of results its turns can lead to.        *)
(***************************************************************************)
\* dict.get(key, default) and dict[key] = value
Get(d, key, default) == IF key \in DOMAIN d THEN d[key] ELSE default
Put(d, key, value) == [k \in DOMAIN d \cup {key} |-> IF k = key THEN value ELSE d[k]]
Bump(d, key) == Put(d, key, Get(d, key, 0) + 1)

Poll(g, t, h, state) == [g |-> g, t |-> t, h |-> h, state |-> state]

\* the creation time of the issue; PR timestamps start at 1 as well
IssueCreatedAt == 1

\* the comments with which a coder turn reports a step that failed
FailureComments ==
    {"failed to clone repository", "failed to create branch",
     "failed to checkout existing branch", "failed to push changes",
     "pushed changes but failed to create PR"}

\* 1 when a git or provider step of the turn failed, else 0
CoderMishap(in, t) ==
    IF \/ in.rm_fail # {}
       \/ Range(t.posted) \cap FailureComments # {}
       \/ {"checkout", "create_branch"} \subseteq Range(t.trace)
    THEN 1 ELSE 0

ReviewerMishap(in) ==
    IF ~in.ci_ok \/ ~in.issue_ok \/ in.agent_raises \/ ~in.review_ok THEN 1 ELSE 0

Within(q) ==
    /\ q.h.mishaps <= MaxMishaps
    /\ Len(q.g.prs) <= MaxPrs
    /\ Cardinality(q.g.branches) <= MaxBranches

AfterCoder(h, trigger, in, t, g) ==
    [h EXCEPT !.coded = Bump(@, trigger),
              !.coder_turns = @ + 1,
              !.passed = IF t.passed THEN @ + 1 ELSE @,
              !.terminal = @ \/ "Maximum iterations reached" \in Range(t.posted),
              !.pushed_to = IF "pushed fixes" \in Range(t.posted)
                            THEN @ \cup {n \in PrNumbers(g) : HeadOfPr(g, n) = t.branch}
                            ELSE @,
              !.mishaps = @ + CoderMishap(in, t)]

AfterReview(h, pr, in, t) ==
    [h EXCEPT !.reviewed = Bump(@, pr.number),
              !.reviewed_at = @ \cup {<<pr.number, pr.updated_at>>},
              !.reviewer_turns = @ + 1,
              !.terminal = @ \/ t.status = "APPROVED",
              !.mishaps = @ + ReviewerMishap(in)]

\* Orchestrator.plan
plan(p) ==
    [p EXCEPT !.g = run_planner_async(p.g), !.t = [NoTurn EXCEPT !.kind = "planner"],
              !.h.planned = @ + 1]

\* Orchestrator.code(issue_number=...): a coder turn in normal mode, no PR number
OrchestratorCoderInputs(g) == {in \in CoderInputs(g) : ~in.ci_fix}

code(p, trigger) ==
    {q \in {LET r == run_coder_async(p.g, in)
            IN [p EXCEPT !.g = r.g, !.t = r.t,
                         !.h = AfterCoder(p.h, trigger, in, r.t, p.g)] :
            in \in OrchestratorCoderInputs(p.g)} : Within(q)}

\* the reviewer turns of the poll loop: at most one check run, at most one issue;
\* the diff is fetched, its failure changing nothing but the prompt
PollReviewerInputs(n) ==
    {ReviewerInput(n, check_runs, TRUE, ci_ok, issue_ok, agent_raises,
                   IF agent_raises THEN ReviewDecision("APPROVED", <<>>) ELSE llm,
                   review_ok) :
        check_runs \in {<<>>, <<CheckRun(FALSE, "completed", "failure")>>},
        ci_ok \in BOOLEAN, issue_ok \in BOOLEAN, agent_raises \in BOOLEAN,
        llm \in {ReviewDecision("APPROVED", <<>>),
                 ReviewDecision("CHANGES_REQUESTED", <<"issue A">>)},
        review_ok \in BOOLEAN}

\* Orchestrator.review(pr_number=...)
review(p, pr) ==
    {q \in {LET r == run_reviewer_async(p.g, in)
            IN [p EXCEPT !.g = r.g, !.t = r.t, !.h = AfterReview(p.h, pr, in, r.t)] :
            in \in PollReviewerInputs(pr.number)} : Within(q)}

\* lines 65-85: the one open issue that is not a pull request
_check_new_issues(p) ==
    LET last_seen == p.state.last_issue_created_at
    IN IF last_seen = 0 \/ IssueCreatedAt > last_seen
       THEN {[plan(p) EXCEPT !.state.last_issue_created_at = IssueCreatedAt]}
       ELSE {p}

\* sorted(comments, key=created_at)
RECURSIVE SortedByCreatedAsc(_)
SortedByCreatedAsc(cs) ==
    IF cs = <<>> THEN <<>>
    ELSE LET low == CHOOSE i \in 1..Len(cs) :
                        /\ \A j \in 1..Len(cs) : cs[i].at <= cs[j].at
                        /\ \A j \in 1..(i - 1) : cs[i].at < cs[j].at
             rest == [k \in 1..(Len(cs) - 1) |-> IF k < low THEN cs[k] ELSE cs[k + 1]]
         IN <<cs[low]>> \o SortedByCreatedAsc(rest)

\* `if comment.id <= last_seen_id: continue`
IsNewMutant(id, last_seen_id) == ~(id <= last_seen_id + 1)
IsNew(id, last_seen_id) == ~(id <= last_seen_id)

\* `last_seen_id = comment.id`
AdvanceMutant(last_seen_id, id) == last_seen_id
Advance(last_seen_id, id) == id

\* lines 225-243: the loop over the comments of the issue
RECURSIVE PlanComments(_, _, _, _)
PlanComments(ps, comments_sorted, i, last_seen_id) ==
    IF i > Len(comments_sorted)
    THEN {[q EXCEPT !.state.last_seen_plans = Put(@, ISSUE, last_seen_id)] : q \in ps}
    ELSE LET comment == comments_sorted[i]
         IN IF ~IsNew(comment.id, last_seen_id)
            THEN PlanComments(ps, comments_sorted, i + 1, last_seen_id)
            ELSE IF comment.marker # PLAN_MARKER
                 THEN PlanComments(ps, comments_sorted, i + 1,
                                   Advance(last_seen_id, comment.id))
                 ELSE PlanComments(UNION {code(q, comment.id) : q \in ps},
                                   comments_sorted, i + 1,
                                   Advance(last_seen_id, comment.id))

\* lines 206-247, enabled
_check_new_plans(p) ==
    PlanComments({p}, SortedByCreatedAsc(list_issue_comments(p.g, ISSUE)), 1,
                 Get(p.state.last_seen_plans, ISSUE, 0))

\* lines 98-104: one PR of the listing
ReviewIfUpdated(q, pr) ==
    LET last_seen == Get(q.state.last_seen_pr_updates, pr.number, 0)
    IN IF last_seen = 0 \/ pr.updated_at > last_seen
       THEN {[r EXCEPT !.state.last_seen_pr_updates = Put(@, pr.number, pr.updated_at)] :
                r \in review(q, pr)}
       ELSE {q}

RECURSIVE PrUpdates(_, _, _)
PrUpdates(ps, prs, i) ==
    IF i > Len(prs) THEN ps
    ELSE PrUpdates(UNION {ReviewIfUpdated(q, prs[i]) : q \in ps}, prs, i + 1)

\* lines 88-106
_check_pr_updates(p) == PrUpdates({p}, list_pull_requests(p.g), 1)

\* lines 123-136
_parse_reviewer_feedback(c) ==
    IF c.marker # REVIEWER_FEEDBACK_MARKER \/ c.block \in {"none", "invalid"}
    THEN [found |-> FALSE, status |-> "", iteration |-> 1, max_iterations |-> 5]
    ELSE [found |-> c.block # "empty", status |-> c.status, iteration |-> c.iteration,
          max_iterations |-> c.max_iterations]

\* the test of line 184 without its iteration part
RequestsChangesMutant(feedback) == feedback.status = "CHANGES_REQUESTED"
\* line 184: `status == "CHANGES_REQUESTED" and iteration < max_iterations`
RequestsChanges(feedback) ==
    feedback.status = "CHANGES_REQUESTED" /\ feedback.iteration < feedback.max_iterations

\* lines 158-199: the loop over the comments of one PR
RECURSIVE FeedbackComments(_, _, _, _, _)
FeedbackComments(ps, pr, comments_sorted, i, last_seen_id) ==
    IF i > Len(comments_sorted)
    THEN {[q EXCEPT !.state.last_seen_feedback = Put(@, pr.number, last_seen_id)] :
             q \in ps}
    ELSE LET comment == comments_sorted[i]
             feedback == _parse_reviewer_feedback(comment)
         IN IF ~IsNew(comment.id, last_seen_id)
            THEN FeedbackComments(ps, pr, comments_sorted, i + 1, last_seen_id)
            ELSE IF /\ feedback.found
                    /\ RequestsChanges(feedback)
                    /\ pr.ref # 0
                 THEN FeedbackComments(UNION {code(q, comment.id) : q \in ps}, pr,
                                       comments_sorted, i + 1,
                                       Advance(last_seen_id, comment.id))
                 ELSE FeedbackComments(ps, pr, comments_sorted, i + 1,
                                       Advance(last_seen_id, comment.id))

\* lines 148-156 and 201: list_pr_comments raises (the PR is skipped) or answers
FeedbackOfPr(q, pr) ==
    {f \in {[q EXCEPT !.h.mishaps = @ + 1]} : Within(f)}
    \cup FeedbackComments({q}, pr, SortedByCreatedAsc(list_issue_comments(q.g, pr.number)),
                          1, Get(q.state.last_seen_feedback, pr.number, 0))

RECURSIVE FeedbackPrs(_, _, _)
FeedbackPrs(ps, prs, i) ==
    IF i > Len(prs) THEN ps
    ELSE FeedbackPrs(UNION {FeedbackOfPr(q, prs[i]) : q \in ps}, prs, i + 1)

\* lines 139-203
_check_reviewer_feedback(p) == FeedbackPrs({p}, list_pull_requests(p.g), 1)

\* lines 39-49
_load_state(file) == file
_save_state(state) == state

(***************************************************************************)
(* Spec: the loop of main() on the repository with its one open issue.     *)
(***************************************************************************)
Init == InitCoder

Polling == Poll(gh, [NoTurn EXCEPT !.kind = "poll"], hist, watcher.state)

Checked(q, next) ==
    /\ gh' = q.g
    /\ turn' = q.t
    /\ hist' = q.h
    /\ watcher' = [watcher EXCEPT !.pc = next, !.state = q.state]

CheckNewIssues ==
    /\ watcher.pc = "issues"
    /\ hist.cycles < MaxCycles
    /\ \E q \in _check_new_issues(Polling) : Checked(q, "plans")

CheckNewPlans ==
    /\ watcher.pc = "plans"
    /\ \E q \in _check_new_plans(Polling) : Checked(q, "prs")

CheckPrUpdates ==
    /\ watcher.pc = "prs"
    /\ \E q \in _check_pr_updates(Polling) : Checked(q, "feedback")

CheckReviewerFeedback ==
    /\ watcher.pc = "feedback"
    /\ \E q \in _check_reviewer_feedback(Polling) : Checked(q, "save")

SaveState ==
    /\ watcher.pc = "save"
    /\ watcher' = [watcher EXCEPT !.pc = "issues", !.file = _save_state(watcher.state)]
    /\ turn' = [NoTurn EXCEPT !.kind = "poll"]
    /\ hist' = [hist EXCEPT !.cycles = @ + 1]
    /\ UNCHANGED gh

\* the process stops between two checks or before _save_state and is started
\* again: main() loads the state from the file
Restart ==
    /\ watcher.pc \in {"plans", "prs", "feedback", "save"}
    /\ hist.crashes < MaxCrashes
    /\ watcher' = [watcher EXCEPT !.pc = "issues", !.state = _load_state(watcher.file)]
    /\ turn' = [NoTurn EXCEPT !.kind = "restart"]
    /\ hist' = [hist EXCEPT !.cycles = @ + 1, !.crashes = @ + 1]
    /\ UNCHANGED gh

Next ==
    \/ CheckNewIssues
    \/ CheckNewPlans
    \/ CheckPrUpdates
    \/ CheckReviewerFeedback
    \/ SaveState
    \/ Restart

Spec == Init /\ [][Next]_vars

(***************************************************************************)
(* SpecReviews: the loop of main() started with an empty state file on a   *)
(* repository whose issue has used up its iterations and has its PR open.  *)
(***************************************************************************)
InitReviews ==
    /\ gh = [create_pull_request(
                 Pushed(PostComment(InitGh, ISSUE, PLAN_MARKER, "object", "", 0),
                        Branch(ISSUE, 1)),
                 Branch(ISSUE, 1), ISSUE)
             EXCEPT !.labels = <<BugLabel, IterationLabel(MAX_DEV_ITERATIONS)>>]
    /\ watcher = InitWatcher
    /\ turn = NoTurn
    /\ hist = InitHist

StartCycle ==
    /\ watcher.pc = "issues"
    /\ hist.cycles < MaxReviewCycles
    /\ \E q \in _check_new_issues(Polling) : Checked(q, "plans")

NextReviews ==
    \/ StartCycle
    \/ CheckNewPlans
    \/ CheckPrUpdates
    \/ CheckReviewerFeedback
    \/ SaveState

SpecReviews == InitReviews /\ [][NextReviews]_vars

(***************************************************************************)
(* SpecFeedback: the loop of main() on a repository whose issue has its    *)
(* plan and its PR open, while the reviewer and other people comment on    *)
(* the PR.  The body of the PR names the issue or names no issue.          *)
(***************************************************************************)
\* what a comment on the PR can hold: no marker, a marker without a block that
\* decodes, or a decision with its status, iteration and max_iterations
FeedbackBodies ==
    {[marker |-> NoMarker, block |-> "object", status |-> "CHANGES_REQUESTED",
      iteration |-> 2, max_iterations |-> 5]}
    \cup {[marker |-> REVIEWER_FEEDBACK_MARKER, block |-> b, status |-> "CHANGES_REQUESTED",
           iteration |-> 2, max_iterations |-> 5] : b \in {"none", "invalid", "empty"}}
    \cup {[marker |-> REVIEWER_FEEDBACK_MARKER, block |-> "object", status |-> st,
           iteration |-> i, max_iterations |-> mx] :
             st \in {"APPROVED", "CHANGES_REQUESTED"}, i \in {2, 3, 5}, mx \in {3, 5}}

InitFeedback ==
    /\ \E n \in {0, ISSUE}, k \in {4, MAX_DEV_ITERATIONS} :
          gh = [create_pull_request(
                    Pushed(PostComment(InitGh, ISSUE, PLAN_MARKER, "object", "", 0),
                           Branch(ISSUE, 1)),
                    Branch(ISSUE, 1), n)
                EXCEPT !.labels = <<BugLabel, IterationLabel(k)>>]
    /\ watcher = InitWatcher
    /\ turn = NoTurn
    /\ hist = InitHist

\* a comment is written on the PR; a comment on a PR does not move its
\* updated_at in the model of the reviewer's own comments either
PostFeedback ==
    /\ Len(list_issue_comments(gh, FirstPrNumber)) < MaxFeedbackComments
    /\ \E b \in FeedbackBodies :
          gh' = [gh EXCEPT !.comments =
                     Append(@, [Comment(gh, FirstPrNumber, b.marker, b.block, b.status,
                                        b.iteration)
                                EXCEPT !.max_iterations = b.max_iterations])]
    /\ UNCHANGED <<watcher, turn, hist>>

StartFeedbackCycle ==
    /\ watcher.pc = "issues"
    /\ hist.cycles < MaxFeedbackCycles
    /\ \E q \in _check_new_issues(Polling) : Checked(q, "plans")

NextFeedback ==
    \/ PostFeedback
    \/ StartFeedbackCycle
    \/ CheckNewPlans
    \/ CheckPrUpdates
    \/ CheckReviewerFeedback
    \/ SaveState

SpecFeedback == InitFeedback /\ [][NextFeedback]_vars

(***************************************************************************)
(* SpecCursors: the state dict of main() across poll cycles in which the   *)
(* listings and the turns can raise.  Only the cursors are kept: a dict of *)
(* the state is a function from the keys 1..MaxKeys to the value stored, 0 *)
(* for a key that is missing; `has` holds the names the dict of the state  *)
(* carries.  What a check finds is any value from the cursor upwards.      *)
(***************************************************************************)
CursorKeys == 1..MaxKeys
CursorValues == 0..MaxCursor
NoDict == [k \in CursorKeys |-> 0]
DictCursors == {"last_seen_plans", "last_seen_pr_updates", "last_seen_feedback"}

\* _load_state when the file is missing: {}
NoCursors ==
    [has |-> {}, last_issue_created_at |-> 0, last_seen_plans |-> NoDict,
     last_seen_pr_updates |-> NoDict, last_seen_feedback |-> NoDict]

InitCursors ==
    /\ gh = InitGh
    /\ turn = NoTurn
    /\ hist = InitHist
    /\ watcher = [pc |-> "issues", state |-> NoCursors, file |-> NoCursors,
                  start |-> NoCursors, ended |-> "", cycles |-> 0]

\* `except Exception as e: logger.exception(...)`, then the next cycle
Caught(state) ==
    watcher' = [watcher EXCEPT !.pc = "issues", !.state = state, !.start = state,
                               !.ended = "raised", !.cycles = @ + 1]

Goes(state, next) == watcher' = [watcher EXCEPT !.pc = next, !.state = state]

\* state[name] = value
SetItem(state, name, value) ==
    [[state EXCEPT ![name] = value] EXCEPT !.has = @ \cup {name}]

\* lines 65-85: the listing or a planner turn raises, or the loop ends and the
\* cursor is stored when it is set
CursorNewIssues ==
    /\ watcher.pc = "issues"
    /\ watcher.cycles < MaxPollCycles
    /\ \/ Caught(watcher.state)
       \/ \E last_seen \in CursorValues :
             /\ last_seen >= watcher.state.last_issue_created_at
             /\ Goes(IF last_seen # 0
                     THEN SetItem(watcher.state, "last_issue_created_at", last_seen)
                     ELSE watcher.state, "plans")
    /\ UNCHANGED <<gh, turn, hist>>

\* the values a loop over the keys can store: no cursor goes back
Found(d) == {e \in [CursorKeys -> CursorValues] : \A k \in CursorKeys : e[k] >= d[k]}

\* the dict after the keys below k were stored
StoredBelow(d, e, k) == [j \in CursorKeys |-> IF j < k THEN e[j] ELSE d[j]]

\* a check that keeps a dict: `d = state.get(name, {})` is the dict of the state
\* when the state has one and a new dict otherwise; the listing raises, or the
\* turn of key k raises after the keys below k were stored in d, or the loop
\* ends and `state[name] = d`
DictCheck(name, next) ==
    LET d == watcher.state[name]
    IN \/ Caught(watcher.state)
       \/ \E e \in Found(d), k \in CursorKeys :
             Caught(IF name \in watcher.state.has
                    THEN [watcher.state EXCEPT ![name] = StoredBelow(d, e, k)]
                    ELSE watcher.state)
       \/ \E e \in Found(d) : Goes(SetItem(watcher.state, name, e), next)

\* lines 206-247
CursorNewPlans ==
    /\ watcher.pc = "plans"
    /\ DictCheck("last_seen_plans", "prs")
    /\ UNCHANGED <<gh, turn, hist>>

\* lines 88-106
CursorPrUpdates ==
    /\ watcher.pc = "prs"
    /\ DictCheck("last_seen_pr_updates", "feedback")
    /\ UNCHANGED <<gh, turn, hist>>

\* lines 139-203
CursorReviewerFeedback ==
    /\ watcher.pc = "feedback"
    /\ DictCheck("last_seen_feedback", "save")
    /\ UNCHANGED <<gh, turn, hist>>

\* line 279: _save_state(state) writes the file, or raises and is caught
CursorSaveState ==
    /\ watcher.pc = "save"
    /\ \/ Caught(watcher.state)
       \/ watcher' = [watcher EXCEPT !.pc = "issues", !.file = _save_state(watcher.state),
                                     !.start = watcher.state, !.ended = "saved",
                                     !.cycles = @ + 1]
    /\ UNCHANGED <<gh, turn, hist>>

NextCursors ==
    \/ CursorNewIssues
    \/ CursorNewPlans
    \/ CursorPrUpdates
    \/ CursorReviewerFeedback
    \/ CursorSaveState

SpecCursors == InitCursors /\ [][NextCursors]_vars

(***************************************************************************)
(* SpecRace: two coder turns on the issue at once, as two processes of     *)
(* run_coder started by hand or by two watchers.  Each call of the GitHub  *)
(* API is one step; the labels of the issue are what the turns share.      *)
(* turn.procs holds the locals of each turn.                               *)
(***************************************************************************)
Turns == 1..2

InitRace ==
    /\ \E labels \in {<<BugLabel>>}
                     \cup {<<BugLabel, IterationLabel(n)>> : n \in 0..MAX_DEV_ITERATIONS} :
          gh = [PostComment(InitGh, ISSUE, PLAN_MARKER, "object", "", 0)
                EXCEPT !.labels = labels]
    /\ watcher = InitWatcher
    /\ hist = InitHist
    /\ turn = [kind |-> "race", start |-> _get_iteration_count(gh.labels),
               rm_failed |-> FALSE,
               procs |-> [p \in Turns |->
                            [pc |-> "get", current |-> 0, snapshot |-> <<>>, i |-> 1]]]

\* `new_iteration = current_iteration + 1`, read again when it is stored
NewIterationMutant(current_iteration, labels) == _get_iteration_count(labels) + 1
\* `new_iteration = current_iteration + 1`
NewIteration(current_iteration, labels) == current_iteration + 1

\* the index of the next iteration label of the list from i on, or 0
NextIterationLabel(snapshot, i) ==
    IF \E j \in i..Len(snapshot) : IsIterationLabel(snapshot[j])
    THEN CHOOSE j \in i..Len(snapshot) :
             /\ IsIterationLabel(snapshot[j])
             /\ \A k \in i..(j - 1) : ~IsIterationLabel(snapshot[k])
    ELSE 0

Moved(p, proc) == turn' = [turn EXCEPT !.procs[p] = proc]

\* run_from_plan.py lines 76-93: _get_iteration_count and the guard
RaceGet ==
    \E p \in Turns :
        LET current == _get_iteration_count(gh.labels)
        IN /\ turn.procs[p].pc = "get"
           /\ Moved(p, [turn.procs[p] EXCEPT
                           !.current = current,
                           !.pc = IF Guard(NewIteration(current, gh.labels))
                                  THEN "refused" ELSE "labels"])
           /\ UNCHANGED <<gh, watcher, hist>>

\* agent.py line 139: the list of labels the update works on
RaceGetLabels ==
    \E p \in Turns :
        /\ turn.procs[p].pc = "labels"
        /\ Moved(p, [turn.procs[p] EXCEPT
                        !.snapshot = gh.labels,
                        !.i = 1,
                        !.pc = IF NextIterationLabel(gh.labels, 1) = 0
                               THEN "add" ELSE "remove"])
        /\ UNCHANGED <<gh, watcher, hist>>

\* agent.py lines 141-143: one remove_issue_label
RaceRemoveLabel ==
    \E p \in Turns, raises \in BOOLEAN :
        LET proc == turn.procs[p]
            j == NextIterationLabel(proc.snapshot, proc.i)
        IN /\ proc.pc = "remove"
           /\ gh' = [gh EXCEPT !.labels = remove_issue_label(@, proc.snapshot[j], raises)]
           /\ turn' = [turn EXCEPT
                          !.rm_failed = @ \/ (raises /\ proc.snapshot[j] \in Range(gh.labels)),
                          !.procs[p] = [proc EXCEPT
                              !.i = j + 1,
                              !.pc = IF NextIterationLabel(proc.snapshot, j + 1) = 0
                                     THEN "add" ELSE "remove"]]
           /\ UNCHANGED <<watcher, hist>>

\* agent.py lines 145-146: add_issue_label
RaceAddLabel ==
    \E p \in Turns :
        LET proc == turn.procs[p]
        IN /\ proc.pc = "add"
           /\ gh' = [gh EXCEPT !.labels =
                        add_issue_label(@, IterationLabel(NewIteration(proc.current, @)))]
           /\ Moved(p, [proc EXCEPT !.pc = "pipeline"])
           /\ UNCHANGED <<watcher, hist>>

\* run_from_plan.py from line 96 on: the turn runs its pipeline
RacePipeline ==
    \E p \in Turns :
        /\ turn.procs[p].pc = "pipeline"
        /\ Moved(p, [turn.procs[p] EXCEPT !.pc = "ran"])
        /\ UNCHANGED <<gh, watcher, hist>>

NextRace == RaceGet \/ RaceGetLabels \/ RaceRemoveLabel \/ RaceAddLabel \/ RacePipeline

SpecRace == InitRace /\ [][NextRace]_vars

(***************************************************************************)
(* SpecIssues: _check_new_issues over poll cycles on a repository where    *)
(* issues and pull requests are opened by people and by bots.  GitHub      *)
(* stamps created_at in whole seconds, so two issues can carry the same    *)
(* time.  gh holds the issues in the order they were opened, watcher the   *)
(* cursor (0 when the state has none), hist how often each issue was       *)
(* handed to the planner, turn what the last cycle started from.           *)
(***************************************************************************)
SkippedAuthors == {"github-actions[bot]", "dependabot[bot]"}
\* lines 61-62
_should_skip_author(author) == author \in SkippedAuthors

InitIssues ==
    /\ gh = [issues |-> <<>>, clock |-> 1]
    /\ watcher = [last_issue_created_at |-> 0, cycles |-> 0]
    /\ hist = [planned |-> [n \in 1..MaxIssues |-> 0], raised |-> FALSE]
    /\ turn = [kind |-> "none", last_seen |-> 0, listed |-> <<>>]

\* somebody opens an issue or a pull request, in the second of the one before
\* or later
OpenIssue ==
    /\ Len(gh.issues) < MaxIssues
    /\ \E later \in BOOLEAN, is_pull_request \in BOOLEAN,
          user_login \in {"alice", "dependabot[bot]"} :
          LET created_at == IF later THEN gh.clock + 1 ELSE gh.clock
          IN /\ created_at <= MaxCreatedAt
             /\ gh' = [issues |-> Append(gh.issues,
                                         [number |-> Len(gh.issues) + 1,
                                          created_at |-> created_at,
                                          is_pull_request |-> is_pull_request,
                                          user_login |-> user_login]),
                       clock |-> created_at]
    /\ UNCHANGED <<watcher, hist, turn>>

\* GitHubClient.list_issues: sort="created", direction="desc"; issues of one
\* second come newest first
RECURSIVE Reversed(_)
Reversed(s) == IF s = <<>> THEN <<>> ELSE Append(Reversed(Tail(s)), Head(s))

RECURSIVE SortedByCreated(_)
SortedByCreated(s) ==
    IF s = <<>> THEN <<>>
    ELSE LET low == CHOOSE i \in 1..Len(s) :
                        /\ \A j \in 1..Len(s) : s[i].created_at <= s[j].created_at
                        /\ \A j \in 1..(i - 1) : s[i].created_at < s[j].created_at
             rest == [k \in 1..(Len(s) - 1) |-> IF k < low THEN s[k] ELSE s[k + 1]]
         IN <<s[low]>> \o SortedByCreated(rest)

list_issues(g) == Reversed(SortedByCreated(g.issues))

\* line 79: `last_seen is None or issue.created_at > last_seen`
IsNewIssue(created_at, last_seen) == last_seen = 0 \/ created_at > last_seen

\* lines 74-82: the loop; raise_at is the dispatch at which orchestrator.plan
\* raises, 0 for none
RECURSIVE IssueLoop(_, _, _, _, _)
IssueLoop(issues, i, last_seen, dispatched, raise_at) ==
    IF i > Len(issues)
    THEN [last_seen |-> last_seen, dispatched |-> dispatched, raised |-> FALSE]
    ELSE LET issue == issues[i]
         IN IF issue.is_pull_request \/ _should_skip_author(issue.user_login)
            THEN IssueLoop(issues, i + 1, last_seen, dispatched, raise_at)
            ELSE IF IsNewIssue(issue.created_at, last_seen)
            THEN IF Len(dispatched) + 1 = raise_at
                 THEN [last_seen |-> last_seen,
                       dispatched |-> Append(dispatched, issue.number),
                       raised |-> TRUE]
                 ELSE IssueLoop(issues, i + 1, issue.created_at,
                                Append(dispatched, issue.number), raise_at)
            ELSE IssueLoop(issues, i + 1, last_seen, dispatched, raise_at)

\* lines 65-85, and the rest of the cycle in main()
CheckIssues ==
    /\ watcher.cycles < MaxIssueCycles
    /\ \E raise_at \in 0..MaxIssues :
          LET last_seen == watcher.last_issue_created_at
              issues == list_issues(gh)
              done == IssueLoop(Reversed(issues), 1, last_seen, <<>>, raise_at)
          IN /\ raise_at <= Len(done.dispatched)
             /\ raise_at # 0 => done.raised
             /\ watcher' = [last_issue_created_at |->
                                IF done.raised THEN last_seen ELSE done.last_seen,
                            cycles |-> watcher.cycles + 1]
             /\ hist' = [planned |-> [n \in 1..MaxIssues |->
                                         hist.planned[n]
                                         + Cardinality({k \in 1..Len(done.dispatched) :
                                                           done.dispatched[k] = n})],
                         raised |-> hist.raised \/ done.raised]
             /\ turn' = [kind |-> "issues", last_seen |-> last_seen, listed |-> issues]
    /\ UNCHANGED gh

NextIssues == OpenIssue \/ CheckIssues

SpecIssues == InitIssues /\ [][NextIssues]_vars

(***************************************************************************)
(* One coder turn seen whole: every entrypoint that runs a coder turn on   *)
(* the issue, with git add and git commit able to fail, provider calls     *)
(* able to raise and the removal of the temp dir able to fail.             *)
(***************************************************************************)
\* run_unified._run_coder_plan_mode: the plan is an argument; the turn reads no
\* label and reports every outcome to the logger only
_run_coder_plan_mode(g, in) ==
    LET existing_branch == ExistingBranch(g, in)
        is_update == existing_branch # NoBranch
        fresh == Branch(ISSUE, token_hex(g))
        w0 == [g |-> g,
               t |-> [NoTurn EXCEPT !.kind = "coder", !.entry = in.entry,
                                    !.before = g.labels, !.plan = TRUE,
                                    !.current = _get_iteration_count(g.labels)]]
        Publish(w, branch_name, upd) ==
            LET w1 == Step([w EXCEPT !.t.branch = branch_name, !.t.is_update = upd,
                                     !.t.commit = CommitState(in)],
                           "commit")
            IN IF _git_commit(in)
               THEN LET w2 == Step(w1, "push")
                    IN IF in.push_ok THEN [w2 EXCEPT !.g = Pushed(w2.g, branch_name)]
                       ELSE w2
               ELSE w1
        Work(w, branch_name, upd) ==
            IF in.raise_at = "agent" THEN Raise(Step(w, "agent"))
            ELSE Publish(Step(w, "agent"), branch_name, upd)
        Create(w) ==
            LET w1 == Step(w, "create_branch")
            IN IF ~in.create_ok THEN w1 ELSE Work(w1, fresh, FALSE)
        Body(w) ==
            IF in.raise_at = "get_clone_url" THEN Raise(w)
            ELSE LET w1 == Step(w, "clone")
                 IN IF ~in.clone_ok THEN w1
                    ELSE IF is_update /\ existing_branch # NoBranch
                    THEN LET w2 == Step(w1, "checkout")
                         IN IF ~in.checkout_ok
                            THEN IF in.ci_fix THEN w2 ELSE Create(w2)
                            ELSE Work(w2, existing_branch, is_update)
                    ELSE Create(w1)
    IN Finally(Body(Mkdtemp(w0)), in)

\* how _git_commit's three commands end: add fails, clean tree, commit fails,
\* committed
GitOutcomes ==
    {[add_ok |-> FALSE, dirty |-> FALSE, commit_ok |-> FALSE],
     [add_ok |-> TRUE, dirty |-> FALSE, commit_ok |-> FALSE],
     [add_ok |-> TRUE, dirty |-> TRUE, commit_ok |-> FALSE],
     [add_ok |-> TRUE, dirty |-> TRUE, commit_ok |-> TRUE]}

\* the calls inside the try block that can raise
RaisePoints(entry) ==
    {"none", "get_clone_url", "agent"}
    \cup (IF entry = "plan_mode" THEN {} ELSE {"outcome"})

TurnInput(entry, mode, o, git, raise_at, rmtree_ok) ==
    [entry |-> entry, ci_fix |-> mode.ci_fix, pr_number |-> mode.pr_number,
     clone_ok |-> o.clone_ok, checkout_ok |-> o.checkout_ok, create_ok |-> o.create_ok,
     add_ok |-> git.add_ok, dirty |-> git.dirty, commit_ok |-> git.commit_ok,
     push_ok |-> o.push_ok, pr_ok |-> o.pr_ok,
     raise_at |-> raise_at, rmtree_ok |-> rmtree_ok,
     rm_fail |-> {}]

\* whether the entrypoint treats CI-fix mode specially
CiFixHandled(entry) == CiFixAware(entry) \/ entry = "plan_mode"

HasExisting(g, entry, mode) ==
    IF CiFixHandled(entry) THEN ExistingBranch(g, mode) # NoBranch
    ELSE _find_existing_branch(g, ISSUE) # NoBranch

\* the step outcomes the entrypoint can meet; plan mode never creates a PR
EntryOutcomes(g, entry, mode) ==
    {o \in StepOutcomes(HasExisting(g, entry, mode), mode.ci_fix /\ CiFixHandled(entry)) :
        entry = "plan_mode" => ~o.pr_ok}

\* the commit outcomes that go with a step outcome
GitOutcomesOf(o) ==
    IF o.has_changes THEN {g \in GitOutcomes : g.commit_ok}
    ELSE IF o.clone_ok /\ (o.checkout_ok \/ o.create_ok)
    THEN {g \in GitOutcomes : ~g.commit_ok}
    ELSE {[add_ok |-> TRUE, dirty |-> FALSE, commit_ok |-> TRUE]}

TurnInputs(g, entry) ==
    IF entry = "plan_mode" \/ ReachesPipeline(g)
    THEN UNION {UNION {{TurnInput(entry, mode, o, git, raise_at, rmtree_ok) :
                          git \in GitOutcomesOf(o),
                          raise_at \in RaisePoints(entry),
                          rmtree_ok \in BOOLEAN} :
                       o \in EntryOutcomes(g, entry, mode)} :
                mode \in Modes(g)}
    ELSE {TurnInput(entry, [ci_fix |-> FALSE, pr_number |-> 0],
                    Flags(FALSE, FALSE, FALSE, FALSE, FALSE, FALSE),
                    [add_ok |-> TRUE, dirty |-> FALSE, commit_ok |-> TRUE],
                    "none", TRUE)}

\* the turn an entrypoint runs
RunTurn(g, in) ==
    IF in.entry = "plan_mode" THEN _run_coder_plan_mode(g, in)
    ELSE run_coder_async(g, in)

\* repositories a turn can start from: no plan yet, a plan, and a plan with
\* the PR of an earlier turn under each iteration label
Planned == run_planner_async(InitGh)

Opened ==
    run_coder_async(Planned,
                    CoderInput([ci_fix |-> FALSE, pr_number |-> 0],
                               Flags(TRUE, FALSE, TRUE, TRUE, TRUE, TRUE), {})).g

TurnRepos ==
    {InitGh, Planned}
    \cup {[Opened EXCEPT !.labels = <<BugLabel, IterationLabel(k)>>] :
             k \in 1..MAX_DEV_ITERATIONS}

InitTurn ==
    /\ gh \in TurnRepos
    /\ watcher = InitWatcher
    /\ turn = NoTurn
    /\ hist = InitHist

\* one turn of the entrypoint; the turn record keeps what the turn met
TurnOf(entry) ==
    /\ hist.coder_turns < MaxTurnsAlone
    /\ \E in \in TurnInputs(gh, entry) :
          LET w == RunTurn(gh, in)
          IN /\ gh' = w.g
             /\ turn' = Put(w.t, "in", in)
             /\ hist' = [hist EXCEPT !.coder_turns = @ + 1,
                                     !.passed = IF w.t.passed THEN @ + 1 ELSE @]
             /\ UNCHANGED watcher

RunFromPlanTurn == TurnOf("run_from_plan")

AgentTurn == TurnOf("agent")

RunnerTurn == TurnOf("runner")

PlanModeTurn == TurnOf("plan_mode")

NextTurn == RunFromPlanTurn \/ AgentTurn \/ RunnerTurn \/ PlanModeTurn

SpecTurn == InitTurn /\ [][NextTurn]_vars

(***************************************************************************)
(* The pure functions on texts.  A text is the sequence of its characters; *)
(* a head ref is the text GitHub returns for it.                           *)
(***************************************************************************)
StartsWith(s, p) == Len(s) >= Len(p) /\ SubSeq(s, 1, Len(p)) = p

DigitChar(d) == <<"0", "1", "2", "3", "4", "5", "6", "7", "8", "9">>[d + 1]

\* str(n) of a natural number
RECURSIVE Digits(_)
Digits(n) ==
    IF n < 10 THEN <<DigitChar(n)>>
    ELSE Digits(n \div 10) \o <<DigitChar(n % 10)>>

\* f"coder-agent/issue-{issue_number}-"
BranchPrefix(issue_number) ==
    <<"c", "o", "d", "e", "r", "-", "a", "g", "e", "n", "t", "/",
      "i", "s", "s", "u", "e", "-">> \o Digits(issue_number) \o <<"-">>

HexChars ==
    {"0", "1", "2", "3", "4", "5", "6", "7", "8", "9", "a", "b", "c", "d", "e", "f"}

\* values of secrets.token_hex(4): eight hex characters
HexSuffixes ==
    {<<"a", "1", "b", "2", "c", "3", "d", "4">>,
     <<"0", "f", "0", "f", "0", "f", "0", "f">>}

\* client.list_pull_requests(state="open")
OpenPrs(prs) == SelectSeq(prs, LAMBDA pr : pr.open)

\* _find_existing_branch: the head ref of the first open PR whose head ref
\* starts with the prefix of the issue; <<>> stands for None
RECURSIVE FirstWithPrefix(_, _, _)
FirstWithPrefix(prs, prefix, i) ==
    IF i > Len(prs) THEN <<>>
    ELSE IF StartsWith(prs[i].head_ref, prefix) THEN prs[i].head_ref
    ELSE FirstWithPrefix(prs, prefix, i + 1)

\* runner_utils.determine_branch_for_issue; pr_number = 0 stands for None and
\* hex is the value token_hex(4) returns
determine_branch_for_issue(prs, issue_number, is_ci_fix_mode, pr_number, hex) ==
    LET existing_branch == FirstWithPrefix(OpenPrs(prs), BranchPrefix(issue_number), 1)
    IN IF is_ci_fix_mode /\ pr_number # 0
       THEN [branch_name |-> prs[pr_number].head_ref, is_update |-> TRUE]
       ELSE IF existing_branch # <<>>
       THEN [branch_name |-> existing_branch, is_update |-> TRUE]
       ELSE [branch_name |-> BranchPrefix(issue_number) \o hex, is_update |-> FALSE]

\* head refs a pull request can carry: branches the agent minted for issues
\* 1, 12 and 2, branches people named, and one that only contains the prefix
HeadRefs ==
    {BranchPrefix(1) \o h : h \in HexSuffixes}
    \cup {BranchPrefix(12) \o <<"a", "1", "b", "2", "c", "3", "d", "4">>,
          BranchPrefix(2) \o <<"a", "1", "b", "2", "c", "3", "d", "4">>,
          BranchPrefix(1) \o <<"h", "o", "t", "f", "i", "x">>,
          BranchPrefix(1) \o <<"a", "1", "b", "2">>,
          <<"m", "a", "i", "n">>,
          <<"f", "i", "x", "/">> \o BranchPrefix(1) \o <<"a", "1", "b", "2", "c", "3", "d", "4">>}

IssueNumbers == {1, 2, 12}

\* the pull requests of a repository, in the order the provider lists them
PrLists ==
    UNION {[1..k -> [head_ref : HeadRefs, open : BOOLEAN]] : k \in 0..MaxListedPrs}

BranchCases ==
    UNION {{[fn |-> "determine_branch_for_issue", prs |-> prs, issue_number |-> n,
             is_ci_fix_mode |-> ci, pr_number |-> k, hex |-> hex] :
               n \in IssueNumbers, ci \in BOOLEAN, hex \in HexSuffixes,
               k \in 0..Len(prs)} :
           prs \in PrLists}

\* what a comment handed to _load_latest_plan can hold: a plan without the
\* marker, and under the marker no block, a block that is not JSON, the
\* object {} and two different plans
CommentKinds ==
    {[marker |-> NoMarker, block |-> "object"],
     [marker |-> PLAN_MARKER, block |-> "none"],
     [marker |-> PLAN_MARKER, block |-> "invalid"],
     [marker |-> PLAN_MARKER, block |-> "empty"],
     [marker |-> PLAN_MARKER, block |-> "object"],
     [marker |-> PLAN_MARKER, block |-> "object B"]}

\* the comments in any order of supply, created_at in 1..MaxCreatedAt
CommentLists ==
    UNION {[1..k -> {[marker |-> c.marker, block |-> c.block, at |-> at] :
                        c \in CommentKinds, at \in 1..MaxCreatedAt}] :
           k \in 0..MaxSupplied}

PlanCases == {[fn |-> "_load_latest_plan", comments |-> cs] : cs \in CommentLists}

(***************************************************************************)
(* The comment codecs on texts.  A body is a sequence of tokens: "M" and   *)
(* "R" the two markers, "t" a piece of fixed text, "nl" a newline, "sp" a  *)
(* space, "j" the fence ```json, "f" the fence ```, "w" a word, "{" "}"    *)
(* braces, "q" a double quote and "eq" the escaped quote of JSON; the      *)
(* punctuation of a JSON object is "," "[" "]" and one token per key with  *)
(* its colon.  json.dumps(indent=2) is kept without its indentation.       *)
(***************************************************************************)
TextChars == {"w", "sp", "q", "{", "}", "f", "j"}

\* the texts a model or a person can write, up to MaxText tokens
Texts(n) == UNION {[1..k -> TextChars] : k \in 0..n}

\* the JSON string literal of a text: quotes escaped
JsonString(text) ==
    <<"q">> \o [i \in 1..Len(text) |-> IF text[i] = "q" THEN "eq" ELSE text[i]]
            \o <<"q">>

\* the items of a JSON array, one per line
RECURSIVE JsonItems(_, _)
JsonItems(texts, i) ==
    IF i > Len(texts) THEN <<>>
    ELSE <<"nl">> \o JsonString(texts[i])
         \o (IF i < Len(texts) THEN <<",">> ELSE <<"nl">>)
         \o JsonItems(texts, i + 1)

JsonArray(texts) == <<"[">> \o JsonItems(texts, 1) \o <<"]">>

\* json.dumps({"summary": payload.summary, "steps": payload.steps}, indent=2)
PlanJson(payload) ==
    <<"{", "nl", "k_summary">> \o JsonString(payload.summary)
    \o <<",", "nl", "k_steps">> \o JsonArray(payload.steps) \o <<"nl", "}">>

\* the numbered lines of the steps
RECURSIVE StepLines(_, _)
StepLines(steps, i) ==
    IF i > Len(steps) THEN <<>>
    ELSE <<"sp", "sp", "t">> \o steps[i] \o <<"nl">> \o StepLines(steps, i + 1)

\* run_planner_async lines 124-147: the body of the payload comment
PlanBody(payload) ==
    <<"M", "nl", "t", "nl", "nl", "t", "nl", "t">> \o payload.summary
    \o <<"nl", "nl", "t", "nl">> \o StepLines(payload.steps, 1)
    \o <<"nl", "t", "nl", "j", "nl">> \o PlanJson(payload)
    \o <<"nl", "f", "nl", "nl", "t">>

\* json.dumps(data_block, indent=2) of _format_review_comment
ReviewJson(d) ==
    <<"{", "nl", "k_status", "q", d.status, "q", ",", "nl",
      "k_iteration", DigitChar(d.iteration), ",", "nl",
      "k_max_iterations", DigitChar(d.max_iterations), ",", "nl", "k_issues">>
    \o JsonArray(d.issues) \o <<"nl", "}">>

\* the "- issue" lines
RECURSIVE IssueLines(_, _)
IssueLines(issues, i) ==
    IF i > Len(issues) THEN <<>>
    ELSE <<"t", "sp">> \o issues[i] \o <<"nl">> \o IssueLines(issues, i + 1)

\* _format_review_comment: marker, report lines, summary, issues, next steps,
\* details block with the fenced JSON
_format_review_comment(d) ==
    <<"R", "nl", "t", "nl", "nl", "t", "f", d.status, "f", "nl",
      "t", DigitChar(d.iteration), "t", DigitChar(d.max_iterations), "nl",
      "t", "nl", "t", "nl", "nl", "t", "nl">> \o d.summary \o <<"nl", "nl">>
    \o (IF d.issues # <<>>
        THEN <<"t", "nl">> \o IssueLines(d.issues, 1) \o <<"nl">>
        ELSE <<>>)
    \o <<"t", "nl", "t", "nl", "nl", "t", "nl", "t", "nl", "nl", "j", "nl">>
    \o ReviewJson(d) \o <<"nl", "f", "nl", "nl", "t">>

\* \s of the regular expression
IsSpace(c) == c \in {"nl", "sp"}

\* the first place at or after i that holds no white space
RECURSIVE SkipSpace(_, _)
SkipSpace(body, i) ==
    IF i > Len(body) THEN i
    ELSE IF IsSpace(body[i]) THEN SkipSpace(body, i + 1)
    ELSE i

SetMin(S) == CHOOSE x \in S : \A y \in S : x <= y

\* the text ``` is matched by the fence and by the start of ```json
ClosesAt(body, e) ==
    /\ body[e] = "}"
    /\ LET k == SkipSpace(body, e + 1)
       IN k <= Len(body) /\ body[k] \in {"f", "j"}

\* the group of ```json\s*(\{.*?\})\s*``` matched at the fence at i, <<>> when
\* there is no match there: the brace after the white space, up to the first
\* closing brace that white space and a fence follow
GroupAt(body, i) ==
    LET a == SkipSpace(body, i + 1)
    IN IF body[i] # "j" \/ a > Len(body) THEN <<>>
       ELSE IF body[a] # "{" THEN <<>>
       ELSE LET ends == {e \in (a + 1)..Len(body) : ClosesAt(body, e)}
            IN IF ends = {} THEN <<>> ELSE SubSeq(body, a, SetMin(ends))

\* re.search(..., re.DOTALL): the leftmost match; <<>> when there is none
ReSearch(body) ==
    LET starts == {i \in 1..Len(body) : GroupAt(body, i) # <<>>}
    IN IF starts = {} THEN <<>> ELSE GroupAt(body, SetMin(starts))

NoValue == [ok |-> FALSE]

Value(v) == [ok |-> TRUE, value |-> v]

\* a JSON string literal at i: up to the next quote, no raw newline inside
ReadString(text, i) ==
    LET closes == {k \in (i + 1)..Len(text) : text[k] = "q"}
    IN IF i > Len(text) THEN NoValue
       ELSE IF text[i] # "q" \/ closes = {} THEN NoValue
       ELSE LET k == SetMin(closes)
                inner == SubSeq(text, i + 1, k - 1)
            IN IF "nl" \in Range(inner) THEN NoValue
               ELSE [ok |-> TRUE,
                     value |-> [j \in 1..Len(inner) |->
                                  IF inner[j] = "eq" THEN "q" ELSE inner[j]],
                     next |-> k + 1]

\* the strings of a JSON array after its "[", up to its "]"
RECURSIVE ReadItems(_, _, _)
ReadItems(text, i, acc) ==
    IF i > Len(text) THEN NoValue
    ELSE IF text[i] = "]" THEN [ok |-> TRUE, value |-> acc, next |-> i + 1]
    ELSE IF text[i] \in {"nl", ","} THEN ReadItems(text, i + 1, acc)
    ELSE LET str == ReadString(text, i)
         IN IF str.ok THEN ReadItems(text, str.next, Append(acc, str.value))
            ELSE NoValue

\* the object {} with white space inside
IsEmptyObject(text) ==
    /\ Len(text) >= 2
    /\ text[1] = "{"
    /\ text[Len(text)] = "}"
    /\ \A i \in 2..(Len(text) - 1) : IsSpace(text[i])

EmptyObject == [empty |-> TRUE]

\* json.loads of a text the expression captured from a payload comment: the
\* payload object, the object {}, or JSONDecodeError
PlanLoads(text) ==
    LET head == <<"{", "nl", "k_summary">>
        mid == <<",", "nl", "k_steps", "[">>
        summary == ReadString(text, Len(head) + 1)
        steps == ReadItems(text, summary.next + Len(mid), <<>>)
    IN IF IsEmptyObject(text) THEN Value(EmptyObject)
       ELSE IF ~StartsWith(text, head) THEN NoValue
       ELSE IF ~summary.ok THEN NoValue
       ELSE IF SubSeq(text, summary.next, summary.next + Len(mid) - 1) # mid THEN NoValue
       ELSE IF ~steps.ok THEN NoValue
       ELSE IF SubSeq(text, steps.next, Len(text)) # <<"nl", "}">> THEN NoValue
       ELSE Value([summary |-> summary.value, steps |-> steps.value])

\* Digit of a token, -1 when it is none
DigitOf(c) ==
    IF \E d \in 0..9 : DigitChar(d) = c THEN CHOOSE d \in 0..9 : DigitChar(d) = c
    ELSE -1

\* json.loads of a text captured from a reviewer comment
ReviewLoads(text) ==
    LET head == <<"{", "nl", "k_status">>
        status == ReadString(text, Len(head) + 1)
        i == status.next
        fixed == Len(text) >= i + 11
                 /\ SubSeq(text, i, i + 2) = <<",", "nl", "k_iteration">>
                 /\ DigitOf(text[i + 3]) >= 0
                 /\ SubSeq(text, i + 4, i + 6) = <<",", "nl", "k_max_iterations">>
                 /\ DigitOf(text[i + 7]) >= 0
                 /\ SubSeq(text, i + 8, i + 11) = <<",", "nl", "k_issues", "[">>
        issues == ReadItems(text, i + 12, <<>>)
    IN IF IsEmptyObject(text) THEN Value(EmptyObject)
       ELSE IF ~StartsWith(text, head) THEN NoValue
       ELSE IF ~status.ok THEN NoValue
       ELSE IF ~fixed THEN NoValue
       ELSE IF ~issues.ok THEN NoValue
       ELSE IF SubSeq(text, issues.next, Len(text)) # <<"nl", "}">> THEN NoValue
       ELSE Value([status |-> status.value[1], iteration |-> DigitOf(text[i + 3]),
                   max_iterations |-> DigitOf(text[i + 7]), issues |-> issues.value])

\* coder_agent/agent._extract_plan on the text of a comment
ExtractPlanFromBody(body) ==
    IF "M" \notin Range(body) THEN NoValue
    ELSE IF ReSearch(body) = <<>> THEN NoValue
    ELSE PlanLoads(ReSearch(body))

\* watcher._parse_reviewer_feedback on the text of a comment
ParseReviewerFeedbackBody(body) ==
    IF "R" \notin Range(body) THEN NoValue
    ELSE IF ReSearch(body) = <<>> THEN NoValue
    ELSE ReviewLoads(ReSearch(body))

\* json.loads on any text: the scanner of the json module descends once per
\* nested array or object and raises RecursionError, which is no
\* JSONDecodeError, when the nesting passes the interpreter's recursion limit;
\* "k" is a key with its colon and "w" a scalar
RECURSIVE ScanValue(_, _, _)
ScanValue(text, i, depth) ==
    LET failed == [kind |-> "JSONDecodeError", next |-> i]
        closed(v, c) ==
            IF v.kind # "ok" THEN v
            ELSE IF v.next <= Len(text) /\ text[v.next] = c
            THEN [kind |-> "ok", next |-> v.next + 1]
            ELSE failed
    IN IF i > Len(text) THEN failed
       ELSE IF text[i] = "w" THEN [kind |-> "ok", next |-> i + 1]
       ELSE IF text[i] \notin {"[", "{"} THEN failed
       ELSE IF depth > RecursionLimit THEN [kind |-> "RecursionError", next |-> i]
       ELSE IF i + 1 > Len(text) THEN failed
       ELSE IF text[i] = "["
       THEN IF text[i + 1] = "]" THEN [kind |-> "ok", next |-> i + 2]
            ELSE closed(ScanValue(text, i + 1, depth + 1), "]")
       ELSE IF text[i + 1] = "}" THEN [kind |-> "ok", next |-> i + 2]
            ELSE IF text[i + 1] = "k"
            THEN closed(ScanValue(text, i + 2, depth + 1), "}")
            ELSE failed

\* how json.loads(text) ends: "ok", "JSONDecodeError" or "RecursionError"
JsonLoads(text) ==
    LET v == ScanValue(text, 1, 1)
    IN IF v.kind = "ok" /\ v.next # Len(text) + 1 THEN "JSONDecodeError"
       ELSE v.kind

Raised(e) == [ok |-> FALSE, raised |-> e]

\* the marker each decoder looks for: PLAN_MARKER, CI_FIXER_MARKER,
\* REVIEWER_FEEDBACK_MARKER
Decoders == {"_extract_plan", "_extract_ci_feedback", "_parse_reviewer_feedback"}

MarkerOf(decoder) ==
    CASE decoder = "_extract_plan" -> "M"
      [] decoder = "_extract_ci_feedback" -> "C"
      [] decoder = "_parse_reviewer_feedback" -> "R"

\* the three decoders have one body: marker test, re.search, json.loads under
\* except json.JSONDecodeError; any other exception leaves the function
Decode(decoder, body) ==
    IF MarkerOf(decoder) \notin Range(body) THEN NoValue
    ELSE IF ReSearch(body) = <<>> THEN NoValue
    ELSE LET loaded == JsonLoads(ReSearch(body))
         IN IF loaded = "ok" THEN Value(ReSearch(body))
            ELSE IF loaded = "JSONDecodeError" THEN NoValue
            ELSE Raised(loaded)

\* what stands between the fences of a comment: any text in braces
Contents ==
    UNION {{<<"{">> \o inner \o <<"}">> : inner \in [1..k -> {"{", "}", "[", "]", "k", "w"}]} :
           k \in 0..MaxContent}

\* comment bodies: no marker or one of the markers, then no block, an opened
\* fence without text in braces, or a fenced block
Bodies ==
    {head \o <<"t", "nl">> \o block :
        head \in {<<>>, <<"M", "nl">>, <<"C", "nl">>, <<"R", "nl">>},
        block \in {<<>>, <<"j", "nl", "w", "nl", "f">>}
                  \cup {<<"j", "nl">> \o c \o <<"nl", "f">> : c \in Contents}}

DecodeCases ==
    {[fn |-> "decode", decoder |-> d, body |-> b] : d \in Decoders, b \in Bodies}

\* a fenced json block holding the payload
Fenced(payload) == <<"j", "nl">> \o payload \o <<"nl", "f", "nl">>

\* the payloads of the blocks a comment can hold before its marker and after it
PayloadBefore == <<"{", "k", "w", "}">>
PayloadAfter == <<"{", "}">>
PayloadLast == <<"{", "k", "[", "]", "}">>

\* comment bodies around a marker: text quoted before the marker (an issue
\* body, an earlier comment), with a fenced json block or without, and no
\* block, one block or two blocks after the marker
MarkedCases ==
    {[fn |-> "decode_marked", decoder |-> d, before |-> b, after |-> a,
      body |-> <<"t", "nl">> \o (IF b = <<>> THEN <<>> ELSE Fenced(b))
               \o <<MarkerOf(d), "nl">>
               \o (IF a = <<>> THEN <<>> ELSE Fenced(a[1]))
               \o (IF Len(a) < 2 THEN <<>> ELSE Fenced(a[2]))] :
        d \in Decoders,
        b \in {<<>>, PayloadBefore},
        a \in {<<>>, <<PayloadAfter>>, <<PayloadAfter, PayloadLast>>,
               <<PayloadLast, PayloadAfter>>}}


\* the plans the planner can post and the decisions the reviewer can report
StepLists == {<<>>} \cup {<<s>> : s \in Texts(MaxStepText)}

PlanPayloads == [summary : Texts(MaxText), steps : StepLists]

Decisions ==
    [status : {"APPROVED", "CHANGES_REQUESTED"}, iteration : 1..2,
     max_iterations : {MAX_ITERATIONS}, summary : {<<"w">>, <<"w", "}", "f">>},
     issues : StepLists]

CodecCases ==
    {[fn |-> "_extract_plan", plan |-> payload] : payload \in PlanPayloads}
    \cup {[fn |-> "_parse_reviewer_feedback", decision |-> d] : d \in Decisions}

(***************************************************************************)
(* The LLM client: agents/common/openai_client.py.  An error is kept as    *)
(* whether it is transient and as the text of str(error), numbers written  *)
(* digit by digit and words as one token.                                  *)
(***************************************************************************)
MAX_RETRIES == 3
RETRY_DELAY_SECONDS == 2

\* x in s, for texts
Contains(s, x) ==
    \E i \in 1..(Len(s) - Len(x) + 1) : SubSeq(s, i, i + Len(x) - 1) = x

RetryWords ==
    {<<"5", "0", "0">>, <<"5", "0", "2">>, <<"5", "0", "3">>, <<"5", "0", "4">>,
     <<"timeout">>, <<"connection">>}

\* _should_retry: a retry word occurs in the lowered text of the error
_should_retry(error) == \E x \in RetryWords : Contains(error.message, x)

\* how one attempt can end: a response, or an error: 500, 503, a timeout, a
\* dropped connection, 529 (overloaded), 401, and a 400 whose message says
\* that the request has 15003 tokens
Succeeds == [ok |-> TRUE]

ApiError(transient, message) == [ok |-> FALSE, transient |-> transient, message |-> message]

Attempts ==
    {Succeeds,
     ApiError(TRUE, <<"code", "5", "0", "0">>),
     ApiError(TRUE, <<"code", "5", "0", "3">>),
     ApiError(TRUE, <<"request", "timeout">>),
     ApiError(TRUE, <<"connection", "error">>),
     ApiError(TRUE, <<"code", "5", "2", "9", "overloaded">>),
     ApiError(FALSE, <<"code", "4", "0", "1">>),
     ApiError(FALSE, <<"code", "4", "0", "0", "tokens", "1", "5", "0", "0", "3">>)}

\* for attempt in range(MAX_RETRIES): try ... except Exception; outcomes[k] is
\* how the k-th call of chat.completions.create ends
RECURSIVE RetryLoop(_, _, _)
RetryLoop(outcomes, attempt, delays) ==
    LET e == outcomes[attempt + 1]
    IN IF e.ok
       THEN [attempts |-> attempt + 1, delays |-> delays, raised |-> FALSE]
       ELSE IF _should_retry(e) /\ attempt < MAX_RETRIES - 1
       THEN RetryLoop(outcomes, attempt + 1,
                      Append(delays, RETRY_DELAY_SECONDS * (attempt + 1)))
       ELSE [attempts |-> attempt + 1, delays |-> delays, raised |-> TRUE, error |-> e]

create_text(outcomes) == RetryLoop(outcomes, 0, <<>>)

chat_with_tools(outcomes) == RetryLoop(outcomes, 0, <<>>)

RetryCases ==
    {[fn |-> f, outcomes |-> o] :
        f \in {"create_text", "chat_with_tools"}, o \in [1..MAX_RETRIES -> Attempts]}

(***************************************************************************)
(* What a reviewer publishes, from what the LLM wrote: run_reviewer_async  *)
(* of github_agents/reviewer_agent and run_reviewer of                     *)
(* agents/reviewer_agent/runner.py.                                        *)
(***************************************************************************)
ReviewStatuses == {"APPROVED", "CHANGES_REQUESTED"}
\* what the status field of the LLM's answer can hold
LlmStatuses == ReviewStatuses \cup {"COMMENT", "approved"}

NotPublished == [published |-> FALSE, status |-> "", event |-> ""]
PublishedAs(status) == [published |-> TRUE, status |-> status, event |-> ReviewEvent(status)]

\* agent.py lines 32-45: `status: Literal["APPROVED", "CHANGES_REQUESTED"]`
Validates(status) == status \in ReviewStatuses

\* agent.py lines 388-408 and 481-523: the output of the agent is validated
\* against ReviewDecision, a failed run gives the fallback decision
PublishOfAgent(output_status, force_approve, ci_failing) ==
    LET llm == IF Validates(output_status)
               THEN ReviewDecision(output_status, <<>>)
               ELSE ReviewDecision("CHANGES_REQUESTED",
                                   <<"Could not complete automated review">>)
        decision == CiOverride(ForcedApproval(llm, force_approve), ci_failing,
                               force_approve)
    IN PublishedAs(decision.status)

\* the answers of the LLM: a JSON object, fenced or bare, with or without a
\* status; JSON that is no object; or text
LlmResponses ==
    {[shape |-> shape, status |-> status, approved |-> FALSE, changes_requested |-> FALSE] :
        shape \in {"fenced", "object"}, status \in LlmStatuses \cup {"missing"}}
    \cup {[shape |-> "array", status |-> "missing", approved |-> FALSE,
           changes_requested |-> FALSE]}
    \cup {[shape |-> "text", status |-> "missing", approved |-> a, changes_requested |-> c] :
             a \in BOOLEAN, c \in BOOLEAN}

\* runner.py lines 179-210: what json.loads gave, or the decision inferred
\* from the text
_parse_review_response(response) ==
    CASE response.shape \in {"fenced", "object"} -> [dict |-> TRUE, status |-> response.status]
      [] response.shape = "array" -> [dict |-> FALSE, status |-> "missing"]
      [] OTHER -> [dict |-> TRUE,
                   status |-> IF response.approved /\ ~response.changes_requested
                              THEN "APPROVED" ELSE "CHANGES_REQUESTED"]

\* runner.py lines 462-497: parsed.get on what is no dict raises
PublishOfRunner(response, force_approve, ci_failing) ==
    LET parsed == _parse_review_response(response)
        forced == IF force_approve /\ parsed.status = "CHANGES_REQUESTED"
                  THEN "APPROVED" ELSE parsed.status
        blocked == IF ci_failing /\ forced = "APPROVED" /\ ~force_approve
                   THEN "CHANGES_REQUESTED" ELSE forced
        status == IF blocked = "missing" THEN "CHANGES_REQUESTED" ELSE blocked
    IN IF ~parsed.dict THEN NotPublished ELSE PublishedAs(status)

PublishCases ==
    {[fn |-> "run_reviewer_async", output_status |-> s, force_approve |-> f, ci_failing |-> c] :
        s \in LlmStatuses, f \in BOOLEAN, c \in BOOLEAN}
    \cup {[fn |-> "run_reviewer", response |-> r, force_approve |-> f, ci_failing |-> c] :
             r \in LlmResponses, f \in BOOLEAN, c \in BOOLEAN}

(***************************************************************************)
(* The planner's build_plan: agents/planner_agent/planner.py and           *)
(* build_plan_async of github_agents/planner_agent/agent.py.  A text is a  *)
(* sequence of "sp" (white space) and other tokens; a JSON value is kept   *)
(* with its type.                                                          *)
(***************************************************************************)
Str(v) == [t |-> "str", v |-> v]
Null == [t |-> "null", v |-> <<>>]
Missing == [t |-> "missing", v |-> <<>>]
List(v) == [t |-> "list", v |-> v]

\* str.strip()
RECURSIVE StripLeft(_)
StripLeft(text) ==
    IF text # <<>> /\ Head(text) = "sp" THEN StripLeft(Tail(text)) ELSE text
StripText(text) == Reversed(StripLeft(Reversed(StripLeft(text))))

\* str(value)
ToStr(value) == IF value.t = "str" THEN value.v ELSE <<"None">>

DefaultSummary == <<"Initial analysis complete; ready to implement the requested change.">>
DefaultSteps ==
    <<<<"Analyze requirements from the issue description and repo context.">>,
      <<"Implement the first step and validate locally.">>,
      <<"Iterate remaining steps with separate sessions if needed.">>,
      <<"Run checks/tests and open a pull request.">>>>

\* f"Draft plan for: {issue_title}".strip()
DraftSummary(issue_title) == StripText(<<"Draft plan for:", "sp">> \o issue_title)

Plan(summary, steps) == [raised |-> FALSE, summary |-> summary, steps |-> steps]

\* lines 62-64
StepsFrom(steps_raw, steps) ==
    IF steps_raw.t = "list" /\ steps_raw.v # <<>>
    THEN SelectSeq([i \in DOMAIN steps_raw.v |-> StripText(ToStr(steps_raw.v[i]))],
                   LAMBDA step : step # <<>>)
    ELSE steps

\* planner.py lines 18-69.  llm.kind: "error" create_text raises, "invalid"
\* json.loads raises, "shape" the JSON is no object, "object"
planner_build_plan(issue_title, issue_body, llm) ==
    LET summary == IF issue_title # <<>> \/ issue_body # <<>>
                   THEN DraftSummary(issue_title) ELSE DefaultSummary
    IN IF llm.kind # "object" THEN Plan(summary, DefaultSteps)
       ELSE LET given == IF llm.summary.t = "missing" THEN summary
                         ELSE StripText(ToStr(llm.summary))
                steps_raw == llm.steps
            IN Plan(IF given # <<>> THEN given ELSE summary,
                    IF steps_raw.t = "missing" THEN DefaultSteps
                    ELSE StepsFrom(steps_raw, DefaultSteps))

\* agent.py lines 71-89: the validated output of the agent as it is, or the
\* fallback plan when the run raises; an output that is no Plan makes the run
\* raise
build_plan_async(issue_title, issue_body, llm) ==
    IF \/ llm.kind # "object"
       \/ llm.summary.t # "str"
       \/ llm.steps.t # "list"
       \/ \E i \in DOMAIN llm.steps.v : llm.steps.v[i].t # "str"
    THEN Plan(IF DraftSummary(issue_title) # <<>> THEN DraftSummary(issue_title)
              ELSE <<"Implementation plan">>, DefaultSteps)
    ELSE Plan(llm.summary.v, [i \in DOMAIN llm.steps.v |-> llm.steps.v[i].v])

PlanTexts == {<<>>, <<"sp">>, <<"x">>, <<"sp", "x">>}
StepValues == {Str(<<>>), Str(<<"sp">>), Str(<<"x", "sp">>), Null}
LlmPlans ==
    {[kind |-> k, summary |-> Missing, steps |-> Missing] : k \in {"error", "invalid", "shape"}}
    \cup {[kind |-> "object", summary |-> summary, steps |-> steps] :
             summary \in {Missing, Null} \cup {Str(v) : v \in PlanTexts},
             steps \in {Missing, Null, Str(<<"x">>)}
                       \cup {List(v) : v \in UNION {[1..k -> StepValues] : k \in 0..MaxPlanSteps}}}

BuildPlanCases ==
    {[fn |-> f, issue_title |-> title, issue_body |-> body, llm |-> llm] :
        f \in {"build_plan", "build_plan_async"},
        title \in {<<>>, <<"x">>}, body \in {<<>>, <<"x">>}, llm \in LlmPlans}

(***************************************************************************)
(* SpecPure: each pure function applied once to an input drawn from its    *)
(* cases; gh holds the input and turn the value returned.                  *)
(***************************************************************************)
InitPure ==
    /\ gh \in BranchCases \cup PlanCases \cup CodecCases \cup DecodeCases
                \cup RetryCases \cup PublishCases \cup BuildPlanCases
                \cup MarkedCases
    /\ watcher = InitWatcher
    /\ turn = NoTurn
    /\ hist = InitHist

Returned(v) ==
    /\ turn.kind = "none"
    /\ turn' = [kind |-> gh.fn, result |-> v]
    /\ UNCHANGED <<gh, watcher, hist>>

DetermineBranch ==
    /\ gh.fn = "determine_branch_for_issue"
    /\ Returned(determine_branch_for_issue(gh.prs, gh.issue_number, gh.is_ci_fix_mode,
                                           gh.pr_number, gh.hex))

LoadLatestPlan ==
    /\ gh.fn = "_load_latest_plan"
    /\ Returned(_load_latest_plan(gh.comments))

ExtractPlan ==
    /\ gh.fn = "_extract_plan"
    /\ Returned(ExtractPlanFromBody(PlanBody(gh.plan)))

ParseReviewerFeedback ==
    /\ gh.fn = "_parse_reviewer_feedback"
    /\ Returned(ParseReviewerFeedbackBody(_format_review_comment(gh.decision)))

DecodeBody ==
    /\ gh.fn = "decode"
    /\ Returned(Decode(gh.decoder, gh.body))

DecodeMarked ==
    /\ gh.fn = "decode_marked"
    /\ Returned(Decode(gh.decoder, gh.body))

CreateText ==
    /\ gh.fn = "create_text"
    /\ Returned(create_text(gh.outcomes))

ChatWithTools ==
    /\ gh.fn = "chat_with_tools"
    /\ Returned(chat_with_tools(gh.outcomes))

RunReviewerAsync ==
    /\ gh.fn = "run_reviewer_async"
    /\ Returned(PublishOfAgent(gh.output_status, gh.force_approve, gh.ci_failing))

RunReviewer ==
    /\ gh.fn = "run_reviewer"
    /\ Returned(PublishOfRunner(gh.response, gh.force_approve, gh.ci_failing))

BuildPlan ==
    /\ gh.fn = "build_plan"
    /\ Returned(planner_build_plan(gh.issue_title, gh.issue_body, gh.llm))

BuildPlanAsync ==
    /\ gh.fn = "build_plan_async"
    /\ Returned(build_plan_async(gh.issue_title, gh.issue_body, gh.llm))

NextPure ==
    \/ DetermineBranch
    \/ LoadLatestPlan
    \/ ExtractPlan
    \/ ParseReviewerFeedback
    \/ DecodeBody
    \/ DecodeMarked
    \/ CreateText
    \/ ChatWithTools
    \/ RunReviewerAsync
    \/ RunReviewer
    \/ BuildPlan
    \/ BuildPlanAsync

SpecPure == InitPure /\ [][NextPure]_vars

(***************************************************************************)
(* SpecAgent: the tool loop of the coder, agents/coder_agent/runner.py     *)
(* _run_agent_loop.  turn holds the locals of the loop: the iteration, the *)
(* tool calls of the response not yet executed, completion_summary, and    *)
(* what the function returned.  The LLM answers as it likes.               *)
(***************************************************************************)
MAX_AGENT_ITERATIONS == 50

\* the tool calls of one response: none, or up to MaxToolCalls calls, each of
\* mark_complete or of another tool
ToolCallLists ==
    UNION {[1..k -> {"mark_complete", "other"}] : k \in 0..MaxToolCalls}

InitLoop ==
    [kind |-> "agent_loop", pc |-> "iterate", iteration |-> 0, llm_calls |-> 0,
     pending |-> <<>>, completion_summary |-> <<>>, result |-> "",
     after_complete |-> 0]

InitAgent ==
    /\ gh = InitGh
    /\ watcher = InitWatcher
    /\ turn = InitLoop
    /\ hist = InitHist

\* `if completion_summary:` with the test left out
IsCompleteMutant(completion_summary) == FALSE
\* `if completion_summary:`
IsComplete(completion_summary) == completion_summary # <<>>

\* calls made once mark_complete has run
Counted(t) == IF t.completion_summary # <<>> THEN t.after_complete + 1 ELSE t.after_complete

\* the head of `for iteration in range(max_iterations)`, the completion test
\* and the call of chat_with_tools, which returns a response or raises
Iterate ==
    /\ turn.pc = "iterate"
    /\ IF turn.iteration >= MAX_AGENT_ITERATIONS
       THEN turn' = [turn EXCEPT !.pc = "returned", !.result = "Max iterations reached"]
       ELSE IF IsComplete(turn.completion_summary)
       THEN turn' = [turn EXCEPT !.pc = "returned", !.result = "summary"]
       ELSE \E raises \in BOOLEAN, tool_calls \in ToolCallLists :
               LET called == [turn EXCEPT !.llm_calls = @ + 1,
                                          !.after_complete = Counted(turn)]
               IN turn' = IF raises THEN [called EXCEPT !.pc = "raised"]
                          ELSE IF tool_calls = <<>>
                          THEN [called EXCEPT !.iteration = @ + 1]
                          ELSE [called EXCEPT !.pc = "tools", !.pending = tool_calls]
    /\ UNCHANGED <<gh, watcher, hist>>

\* one pass of `for call in response.tool_calls`: tools.call, whose handler
\* can raise, then the completion test; mark_complete's handler appends the
\* summary
ExecuteToolCall ==
    /\ turn.pc = "tools"
    /\ \E raises \in BOOLEAN :
          LET call == Head(turn.pending)
              ran == [turn EXCEPT !.pending = Tail(@),
                                  !.after_complete = Counted(turn),
                                  !.completion_summary =
                                      IF call = "mark_complete" /\ ~raises
                                      THEN Append(@, "summary") ELSE @]
          IN turn' = IF raises THEN [ran EXCEPT !.pc = "raised"]
                     ELSE IF IsComplete(ran.completion_summary)
                     THEN [ran EXCEPT !.pc = "returned", !.result = "summary"]
                     ELSE IF ran.pending = <<>>
                     THEN [ran EXCEPT !.pc = "iterate", !.iteration = @ + 1]
                     ELSE ran
    /\ UNCHANGED <<gh, watcher, hist>>

NextAgent == Iterate \/ ExecuteToolCall

\* the loop is a running program: a step that can be taken is taken
SpecAgent == InitAgent /\ [][NextAgent]_vars /\ WF_vars(NextAgent)

(***************************************************************************)
(* SpecReviewTools: the tool loop of the reviewer,                         *)
(* agents/reviewer_agent/runner.py _create_review_with_tools.  turn holds  *)
(* the locals of the loop: the passes made, the content of the latest      *)
(* response (None, the empty text or text), its tool calls not yet run,    *)
(* and how the function ended.  The LLM answers as it likes.               *)
(***************************************************************************)
max_iterations == 10

\* ChatResponse.content: str | None
ResponseContents == {"None", "", "text"}

\* the tool calls of one response: the name is in tool_map or it is not
ReviewToolCallLists == UNION {[1..k -> {"known", "unknown"}] : k \in 0..MaxToolCalls}

InitReviewLoop ==
    [kind |-> "review_tools", pc |-> "chat", passes |-> 0, llm_calls |-> 0,
     content |-> "unset", had_tool_calls |-> FALSE, pending |-> <<>>,
     tool_messages |-> 0, result |-> "unset"]

InitReviewTools ==
    /\ gh = InitGh
    /\ watcher = InitWatcher
    /\ turn = InitReviewLoop
    /\ hist = InitHist

\* x.strip() on a value that is None
StripOfNone == [pc |-> "raised", result |-> "AttributeError"]
\* x.strip() on a str
StripOfStr == [pc |-> "returned", result |-> "str"]

\* line 562: `return (response.content if response else "...").strip()`; the
\* response of the last pass is an object, so its content is what is stripped
AfterLoop(content) == IF content = "None" THEN StripOfNone ELSE StripOfStr

\* line 551: `return (response.content or "").strip()`
WithoutToolCalls(content) == StripOfStr

\* the head of `for _ in range(max_iterations)`, the call of chat_with_tools
\* and the return of a response without tool calls
Chat ==
    /\ turn.pc = "chat"
    /\ IF turn.passes >= max_iterations
       THEN LET end == AfterLoop(turn.content)
            IN turn' = [turn EXCEPT !.pc = end.pc, !.result = end.result]
       ELSE \E content \in ResponseContents, tool_calls \in ReviewToolCallLists :
               LET called == [turn EXCEPT !.llm_calls = @ + 1, !.content = content,
                                          !.had_tool_calls = tool_calls # <<>>]
                   end == WithoutToolCalls(content)
               IN turn' = IF tool_calls = <<>>
                          THEN [called EXCEPT !.pc = end.pc, !.result = end.result]
                          ELSE [called EXCEPT !.pc = "tools", !.pending = tool_calls,
                                              !.tool_messages = 0]
    /\ UNCHANGED <<gh, watcher, hist>>

\* one pass of `for call in response.tool_calls`: _run_tool answers with the
\* tool's result or with the "Unknown tool" error, and the message is added
RunTool ==
    /\ turn.pc = "tools"
    /\ LET ran == [turn EXCEPT !.pending = Tail(@), !.tool_messages = @ + 1]
       IN turn' = IF ran.pending = <<>>
                  THEN [ran EXCEPT !.pc = "chat", !.passes = @ + 1]
                  ELSE ran
    /\ UNCHANGED <<gh, watcher, hist>>

NextReviewTools == Chat \/ RunTool

SpecReviewTools == InitReviewTools /\ [][NextReviewTools]_vars /\ WF_vars(NextReviewTools)

(***************************************************************************)
(* SpecFiles: the file tools of the coder, agents/coder_agent/tools.py     *)
(* FileWorkspace, and write_file of github_agents/common/tools.py.  A path *)
(* of the file system is the sequence of its names from "/".  The clone    *)
(* lives in /w; /o is a directory outside it; the cloned repository may    *)
(* hold a symbolic link l to /o.  turn holds the workspace, the last call  *)
(* and the workspace as it was before that call.                           *)
(***************************************************************************)
Root == <<"w">>
Outside == <<"o">>

Front(s) == SubSeq(s, 1, Len(s) - 1)
IsPrefix(p, q) == Len(p) <= Len(q) /\ SubSeq(q, 1, Len(p)) = p
Prefixes(p) == {SubSeq(p, 1, k) : k \in 0..Len(p)}

PathNames == {"..", "a", "f", "l", "w"}
\* the path arguments of the tools: absolute or relative, up to MaxPathLen names
ToolPaths ==
    [absolute : BOOLEAN, parts : UNION {[1..k -> PathNames] : k \in 0..MaxPathLen}]

FileSystems ==
    {[dirs |-> {<<>>, Outside, Root, Root \o <<"a">>},
      files |-> (Outside \o <<"f">> :> <<"x">>) @@ (Root \o <<"f">> :> <<"x">>),
      links |-> IF linked THEN (Root \o <<"l">> :> Outside) ELSE << >>] : linked \in BOOLEAN}

\* Path.resolve(): ".." goes up, a symbolic link is replaced by its target
RECURSIVE Realpath(_, _, _)
Realpath(fs, cur, parts) ==
    IF parts = <<>> THEN cur
    ELSE LET c == Head(parts)
             p == Append(cur, c)
             nxt == IF c = ".." THEN (IF cur = <<>> THEN cur ELSE Front(cur))
                    ELSE IF p \in DOMAIN fs.links THEN fs.links[p] ELSE p
         IN Realpath(fs, nxt, Tail(parts))

\* self._workdir / relative_path: an absolute right operand replaces the left
Join(base, path) == IF path.absolute THEN <<>> ELSE base

\* candidate.relative_to(self._root) with the test left out
RelativeToMutant(candidate, root) == TRUE
\* candidate.relative_to(self._root) does not raise
RelativeTo(candidate, root) == IsPrefix(root, candidate)

Ok == [ok |-> TRUE, raised |-> FALSE]
NotOk == [ok |-> FALSE, raised |-> FALSE]
OsError == [ok |-> FALSE, raised |-> TRUE]

\* FileWorkspace._resolve: the candidate, or ValueError
_resolve(ws, path) ==
    LET candidate == Realpath(ws.fs, Join(ws.workdir, path), path.parts)
    IN IF RelativeTo(candidate, Root) THEN [ok |-> TRUE, target |-> candidate]
       ELSE [ok |-> FALSE, target |-> <<>>]

\* FileWorkspace._resolve_required
_resolve_required(ws, path) ==
    IF path.absolute THEN [ok |-> FALSE, target |-> <<>>] ELSE _resolve(ws, path)

Exists(fs, t) == t \in fs.dirs \/ t \in DOMAIN fs.files
IsDir(fs, t) == t \in fs.dirs
IsFile(fs, t) == t \in DOMAIN fs.files

\* Path.mkdir(parents=True, exist_ok=True): raises when a file is in the way
CanMkdir(fs, t) == Prefixes(t) \cap DOMAIN fs.files = {}
Mkdir(fs, t) == [fs EXCEPT !.dirs = @ \cup Prefixes(t)]

\* Path.write_text
WriteText(fs, t, content) ==
    [fs EXCEPT !.files = [q \in DOMAIN @ \cup {t} |-> IF q = t THEN content ELSE @[q]]]

\* Path.unlink
Unlink(fs, t) == [fs EXCEPT !.files = [q \in DOMAIN @ \ {t} |-> @[q]]]

\* str.replace(old, new)
Replace(content, old, new) ==
    [i \in DOMAIN content |-> IF content[i] = old THEN new ELSE content[i]]

Done(ws, r) == [ws |-> ws, r |-> r]
Wrote(ws, t, content) ==
    IF ~CanMkdir(ws.fs, Front(t)) \/ IsDir(ws.fs, t) THEN Done(ws, OsError)
    ELSE Done([ws EXCEPT !.fs = WriteText(Mkdir(ws.fs, Front(t)), t, content)], Ok)

FileOps ==
    {"list_dir", "read_file", "create_file", "write_file", "append_file",
     "replace_in_file", "delete_path", "make_dir", "set_workdir"}

\* the operations of FileWorkspace after path resolution
OnTarget(ws, op, t, content) ==
    LET fs == ws.fs IN
    CASE op = "list_dir" -> Done(ws, IF IsDir(fs, t) THEN Ok ELSE NotOk)
      [] op = "read_file" -> Done(ws, IF IsFile(fs, t) THEN Ok ELSE NotOk)
      [] op = "create_file" ->
             IF Exists(fs, t) THEN Done(ws, NotOk) ELSE Wrote(ws, t, content)
      [] op = "write_file" -> Wrote(ws, t, content)
      [] op = "append_file" ->
             Wrote(ws, t, IF IsFile(fs, t) THEN fs.files[t] \o content ELSE content)
      [] op = "replace_in_file" ->
             IF ~IsFile(fs, t) THEN Done(ws, NotOk)
             ELSE IF "x" \notin Range(fs.files[t]) THEN Done(ws, NotOk)
             ELSE Wrote(ws, t, Replace(fs.files[t], "x", "y"))
      [] op = "delete_path" ->
             IF ~Exists(fs, t) \/ IsDir(fs, t) THEN Done(ws, NotOk)
             ELSE Done([ws EXCEPT !.fs = Unlink(fs, t)], Ok)
      [] op = "make_dir" ->
             IF ~CanMkdir(fs, t) THEN Done(ws, OsError)
             ELSE Done([ws EXCEPT !.fs = Mkdir(fs, t)], Ok)
      [] op = "set_workdir" ->
             IF ~IsDir(fs, t) THEN Done(ws, NotOk)
             ELSE Done([ws EXCEPT !.workdir = t], Ok)

\* one operation of FileWorkspace
FileOp(ws, op, path, content) ==
    LET res == _resolve_required(ws, path)
    IN IF ~res.ok THEN Done(ws, NotOk) ELSE OnTarget(ws, op, res.target, content)

\* write_file of github_agents/common/tools.py: the workspace of the context
\* is the base, and there is no test for an absolute path
write_file(ws, path, content) ==
    LET target == Realpath(ws.fs, Join(Root, path), path.parts)
    IN IF ~RelativeTo(target, Root) THEN Done(ws, NotOk)
       ELSE Wrote(ws, target, content)

InitFiles ==
    /\ gh = InitGh
    /\ watcher = InitWatcher
    /\ hist = InitHist
    /\ \E fs \in FileSystems :
          LET ws == [fs |-> fs, workdir |-> Root]
          IN turn = [kind |-> "files", ws |-> ws, before |-> ws, op |-> "",
                     path |-> [absolute |-> FALSE, parts |-> <<>>], r |-> Ok,
                     calls |-> 0]

Called(op, path, done) ==
    /\ turn.calls < MaxFileCalls
    /\ turn' = [turn EXCEPT !.ws = done.ws, !.before = turn.ws, !.op = op,
                            !.path = path, !.r = done.r, !.calls = @ + 1]
    /\ UNCHANGED <<gh, watcher, hist>>

Call(op) == \E path \in ToolPaths : Called(op, path, FileOp(turn.ws, op, path, <<"x">>))

ListDir == Call("list_dir")
ReadFile == Call("read_file")
CreateFile == Call("create_file")
WriteFile == Call("write_file")
AppendFile == Call("append_file")
ReplaceInFile == Call("replace_in_file")
DeletePath == Call("delete_path")
MakeDir == Call("make_dir")
SetWorkdir == Call("set_workdir")
WriteFileTool ==
    \E path \in ToolPaths :
        Called("write_file_tool", path, write_file(turn.ws, path, <<"x">>))

NextFiles ==
    \/ ListDir \/ ReadFile \/ CreateFile \/ WriteFile \/ AppendFile
    \/ ReplaceInFile \/ DeletePath \/ MakeDir \/ SetWorkdir \/ WriteFileTool

SpecFiles == InitFiles /\ [][NextFiles]_vars

(***************************************************************************)
(* SpecGit: the git helpers of github_agents/coder_agent/agent.py on one   *)
(* clone.  gh holds the clone and its remote: whether the clone exists,    *)
(* the branch checked out, the commits made in the clone, whether the      *)
(* index and the working tree hold changes, and what origin has of the     *)
(* agent branch.  subprocess.run ends in one of three ways: the process    *)
(* exits 0, it exits with another code (CalledProcessError under           *)
(* check=True), or it cannot be started at all (OSError: no git on PATH,   *)
(* no such cwd, no memory to fork).                                        *)
(***************************************************************************)
ProcessOutcomes == {"exit0", "nonzero", "oserror"}

AgentBranch == "coder-agent/issue-1-a"

NoRepo ==
    [cloned |-> FALSE, branch |-> "", commits |-> 0, index |-> FALSE, tree |-> FALSE,
     remote |-> [exists |-> FALSE, commits |-> 0]]

\* origin as the turn finds it: without the agent branch, or with it
GitRemotes == {[exists |-> FALSE, commits |-> 0], [exists |-> TRUE, commits |-> 1]}

\* git exits 0 only where git can do what it is asked
Exit(outcome, possible) ==
    IF outcome = "exit0" /\ ~possible THEN "nonzero" ELSE outcome

\* what a helper did: the clone after it, True / False or the exception, and
\* how its processes ended
GitReturned(repo, value, failed) ==
    [repo |-> repo, result |-> IF value THEN "true" ELSE "false",
     failed |-> failed, unstarted |-> FALSE]
GitRaised(repo) ==
    [repo |-> repo, result |-> "raised", failed |-> TRUE, unstarted |-> TRUE]

\* git clone --depth 1: into a destination that holds no clone yet
RunClone(repo) ==
    [repo EXCEPT !.cloned = TRUE, !.branch = "main", !.commits = 0,
                 !.index = FALSE, !.tree = FALSE]
\* git checkout -b <name> [origin/<name>]: the changes of the tree go along
RunCheckout(repo, branch_name) == [repo EXCEPT !.branch = branch_name]
\* git add -A: everything changed in the tree is staged
RunAdd(repo) == [repo EXCEPT !.index = repo.index \/ repo.tree, !.tree = FALSE]
\* stdout of git status --porcelain: one line per changed path
StatusStdout(repo) == IF repo.index \/ repo.tree THEN <<"M">> ELSE <<>>
\* git commit -m: the index becomes a commit; git refuses an empty one
RunCommit(repo) == [repo EXCEPT !.commits = @ + 1, !.index = FALSE]
\* git push -u origin <name>
RunPush(repo) == [repo EXCEPT !.remote = [exists |-> TRUE, commits |-> repo.commits]]

\* _clone_repository
GitCloneRepository(repo, o1) ==
    LET out == Exit(o1, ~repo.cloned)
    IN IF out = "oserror" THEN GitRaised(repo)
       ELSE IF out = "nonzero" THEN GitReturned(repo, FALSE, TRUE)
       ELSE GitReturned(RunClone(repo), TRUE, FALSE)

\* _git_create_branch
GitCreateBranch(repo, branch_name, o1) ==
    LET out == Exit(o1, repo.cloned /\ repo.branch # branch_name)
    IN IF out = "oserror" THEN GitRaised(repo)
       ELSE IF out = "nonzero" THEN GitReturned(repo, FALSE, TRUE)
       ELSE GitReturned(RunCheckout(repo, branch_name), TRUE, FALSE)

\* _git_checkout_existing_branch: git fetch origin <name>, then git checkout
GitCheckoutExistingBranch(repo, branch_name, o1, o2) ==
    LET fetch == Exit(o1, repo.cloned /\ repo.remote.exists)
        checkout == Exit(o2, repo.branch # branch_name)
    IN IF fetch = "oserror" THEN GitRaised(repo)
       ELSE IF fetch = "nonzero" THEN GitReturned(repo, FALSE, TRUE)
       ELSE IF checkout = "oserror" THEN GitRaised(repo)
       ELSE IF checkout = "nonzero" THEN GitReturned(repo, FALSE, TRUE)
       ELSE GitReturned(RunCheckout(repo, branch_name), TRUE, FALSE)

\* `if not result.stdout.strip(): return False` returning True instead
NoChangesResultMutant(repo, failed) == GitReturned(repo, TRUE, failed)
\* `if not result.stdout.strip(): logger.info(...); return False`
NoChangesResult(repo, failed) == GitReturned(repo, FALSE, failed)

\* _git_commit: git add -A, git status --porcelain (run without check=True,
\* so an exit code other than 0 leaves an empty stdout), git commit
GitCommit(repo, o1, o2, o3) ==
    LET add == Exit(o1, repo.cloned)
        staged == RunAdd(repo)
        status == Exit(o2, repo.cloned)
        stdout == IF status = "exit0" THEN StatusStdout(staged) ELSE <<>>
        commit == Exit(o3, staged.index)
    IN IF add = "oserror" THEN GitRaised(repo)
       ELSE IF add = "nonzero" THEN GitReturned(repo, FALSE, TRUE)
       ELSE IF status = "oserror" THEN GitRaised(staged)
       ELSE IF stdout = <<>> THEN NoChangesResult(staged, status # "exit0")
       ELSE IF commit = "oserror" THEN GitRaised(staged)
       ELSE IF commit = "nonzero" THEN GitReturned(staged, FALSE, TRUE)
       ELSE GitReturned(RunCommit(staged), TRUE, FALSE)

\* _git_push
GitPush(repo, branch_name, o1) ==
    LET out == Exit(o1, repo.cloned /\ repo.branch = branch_name)
    IN IF out = "oserror" THEN GitRaised(repo)
       ELSE IF out = "nonzero" THEN GitReturned(repo, FALSE, TRUE)
       ELSE GitReturned(RunPush(repo), TRUE, FALSE)

NoGitCall ==
    [kind |-> "git", fn |-> "none", result |-> "none", failed |-> FALSE,
     unstarted |-> FALSE, before |-> NoRepo]

InitGit ==
    /\ gh \in {[NoRepo EXCEPT !.remote = r] : r \in GitRemotes}
    /\ watcher = InitWatcher
    /\ turn = NoGitCall
    /\ hist = [calls |-> 0]

\* one call of a helper by the turn controller
GitCalled(fn, r) ==
    /\ hist.calls < MaxGitCalls
    /\ gh' = r.repo
    /\ turn' = [kind |-> "git", fn |-> fn, result |-> r.result, failed |-> r.failed,
                unstarted |-> r.unstarted, before |-> gh]
    /\ hist' = [hist EXCEPT !.calls = @ + 1]
    /\ UNCHANGED watcher

CloneRepository ==
    \E o1 \in ProcessOutcomes :
        GitCalled("_clone_repository", GitCloneRepository(gh, o1))
CreateBranch ==
    \E o1 \in ProcessOutcomes :
        GitCalled("_git_create_branch", GitCreateBranch(gh, AgentBranch, o1))
CheckoutExistingBranch ==
    \E o1, o2 \in ProcessOutcomes :
        GitCalled("_git_checkout_existing_branch",
                  GitCheckoutExistingBranch(gh, AgentBranch, o1, o2))
Commit ==
    \E o1, o2, o3 \in ProcessOutcomes :
        GitCalled("_git_commit", GitCommit(gh, o1, o2, o3))
Push ==
    \E o1 \in ProcessOutcomes :
        GitCalled("_git_push", GitPush(gh, AgentBranch, o1))

\* the agent's file tools change a file of the clone
AgentEdits ==
    /\ gh.cloned
    /\ ~gh.tree
    /\ gh' = [gh EXCEPT !.tree = TRUE]
    /\ turn' = [NoGitCall EXCEPT !.fn = "edit", !.before = gh]
    /\ UNCHANGED <<watcher, hist>>

NextGit ==
    \/ CloneRepository \/ CreateBranch \/ CheckoutExistingBranch
    \/ Commit \/ Push \/ AgentEdits

SpecGit == InitGit /\ [][NextGit]_vars

(***************************************************************************)
(* Properties of sequential coder turns (SpecCoder).                       *)
(***************************************************************************)
IsCoderStep == hist'.coder_turns = hist.coder_turns + 1

Pipeline_steps ==
    {"mkdtemp", "clone", "checkout", "create_branch", "agent", "commit", "push",
     "create_pr"}

\* C1: over any sequence of sequential coder turns at most MAX_DEV_ITERATIONS
\* turns get past the guard into the pipeline, and the value of an iteration
\* label never exceeds MAX_DEV_ITERATIONS.
C1_AtMostMaxTurnsPassGuard ==
    /\ hist.passed <= MAX_DEV_ITERATIONS
    /\ \A l \in IterationLabels(gh.labels) : l.suf <= MAX_DEV_ITERATIONS

\* C2: a coder turn started with the iteration label iteration-5 and a plan
\* takes no pipeline step, leaves labels, branches and PRs as they were and
\* posts exactly the "Maximum iterations reached" comment on the issue.
C2_TurnAtCeilingIsBlocked ==
    [][(/\ IsCoderStep
        /\ IterationLabels(gh.labels) = {IterationLabel(MAX_DEV_ITERATIONS)}
        /\ PlanExists(gh))
       => (/\ Range(turn'.trace) \cap Pipeline_steps = {}
           /\ gh'.labels = gh.labels
           /\ gh'.branches = gh.branches
           /\ gh'.prs = gh.prs
           /\ turn'.posted = <<"Maximum iterations reached">>
           /\ Len(gh'.comments) = Len(gh.comments) + 1
           /\ gh'.comments[Len(gh'.comments)].on = ISSUE)]_vars

C2_Witness ==
    /\ turn.kind = "coder"
    /\ turn.plan
    /\ IterationLabels(turn.before) = {IterationLabel(MAX_DEV_ITERATIONS)}
    /\ turn.posted = <<"Maximum iterations reached">>

\* C9: the issue carries at most one iteration-* label in every state, and
\* after a turn that ran _update_iteration_count(new) the only such label is
\* iteration-<new>.
C9_AtMostOneIterationLabel ==
    /\ Cardinality(IterationLabels(gh.labels)) <= 1
    /\ (turn.kind = "coder" /\ turn.passed)
          => IterationLabels(gh.labels) = {IterationLabel(turn.current + 1)}

\* C10: the value of _get_iteration_count never decreases over a coder turn;
\* it grows by exactly 1 in a turn that finds a plan below the ceiling,
\* whatever the later steps of that turn do, and is unchanged by any other turn.
C10_CountGrowsByOne ==
    [][IsCoderStep
       => LET before == _get_iteration_count(gh.labels)
              after == _get_iteration_count(gh'.labels)
          IN /\ after >= before
             /\ IF PlanExists(gh) /\ before < MAX_DEV_ITERATIONS
                THEN after = before + 1
                ELSE after = before]_vars

\* C11: after any sequence of sequential coder turns at most one branch
\* coder-agent/issue-<n>-* has been pushed for the issue and at most one open
\* PR has such a head ref.
C11_AtMostOneBranchAndPr ==
    /\ Cardinality({b \in gh.branches : b.issue = ISSUE}) <= 1
    /\ Cardinality({i \in 1..Len(gh.prs) :
                       gh.prs[i].open /\ gh.prs[i].head.issue = ISSUE}) <= 1

\* a comment on the issue that carries the plan marker and a JSON object with keys
DecodesToPlan(c) == c.on = ISSUE /\ c.marker = PLAN_MARKER /\ c.block = "object"

Last(seq) == seq[Len(seq)]

Count(seq, x) == Cardinality({i \in 1..Len(seq) : seq[i] = x})

\* C13: a coder turn that creates a temp dir removes it as its last step on
\* every exit path (normal end, early return after a clone, branch or checkout
\* failure, exception raised by a provider call or by the agent): the dir is
\* gone unless the removal itself failed; a failing removal is swallowed, the
\* turn's comments, repository effects and exception are the same as with a
\* removal that works.  A turn that creates no temp dir removes none.
C13_TempDirRemoved ==
    [][IsCoderStep
       => /\ "mkdtemp" \in Range(turn'.trace)
               => /\ Last(turn'.trace) = "rmtree"
                  /\ Count(turn'.trace, "rmtree") = 1
                  /\ turn'.temp = IF turn'.in.rmtree_ok THEN "removed" ELSE "left"
          /\ "mkdtemp" \notin Range(turn'.trace)
               => turn'.temp = "none" /\ "rmtree" \notin Range(turn'.trace)
          /\ LET other == RunTurn(gh, [turn'.in EXCEPT !.rmtree_ok = ~@])
             IN /\ other.g = gh'
                /\ other.t.posted = turn'.posted
                /\ other.t.trace = turn'.trace
                /\ other.t.raised = turn'.raised]_vars

C13_Witness ==
    /\ turn.kind = "coder" /\ turn.entry = "run_from_plan"
    /\ turn.raised /\ turn.in.raise_at = "agent"
    /\ turn.temp = "removed"
    /\ Last(turn.trace) = "rmtree"

\* the pipeline of the turn was entered: the turn is past the iteration guard
\* where the entrypoint has one
InPipeline(t) == t.kind = "coder" /\ "mkdtemp" \in Range(t.trace)

\* the outcome of a turn that met in and took the steps of t, as the comment
\* that names it
OutcomeComment(in, t) ==
    LET did(s) == s \in Range(t.trace)
    IN IF ~in.clone_ok THEN "failed to clone repository"
       ELSE IF did("create_branch") /\ ~in.create_ok THEN "failed to create branch"
       ELSE IF did("checkout") /\ ~in.checkout_ok /\ ~did("create_branch")
       THEN "failed to checkout existing branch"
       ELSE IF did("push") /\ ~in.push_ok THEN "failed to push changes"
       ELSE IF did("create_pr") /\ ~in.pr_ok THEN "pushed changes but failed to create PR"
       ELSE IF did("create_pr") THEN "completed implementation"
       ELSE IF did("push") THEN "pushed fixes"
       ELSE "completed but made no changes"

\* C14: every coder turn that enters the pipeline and is not ended by an
\* exception ends with a comment on the issue that names its outcome (clone
\* failure, branch-creation failure, CI-fix checkout failure, push failure,
\* PR-creation failure, update pushed, PR created, no changes), whatever the
\* combination of step outcomes and whichever entrypoint runs the turn.
C14_EveryOutcomeIsCommented ==
    [][(IsCoderStep /\ InPipeline(turn') /\ turn'.in.raise_at = "none")
       => /\ Len(turn'.posted) >= 1
          /\ Last(turn'.posted) = OutcomeComment(turn'.in, turn')
          /\ Last(turn'.trace) = "rmtree"
          /\ turn'.trace[Len(turn'.trace) - 1] = "comment"]_vars

\* C15: when the checkout of the existing branch fails, a turn in CI-fix mode
\* ends with a comment on the issue and creates no branch, runs no agent and
\* commits and pushes nothing; a turn in normal mode creates a new branch,
\* holds is_update = false and, once its push has succeeded, opens a new PR.
C15_CheckoutFailure ==
    [][(/\ IsCoderStep
        /\ "checkout" \in Range(turn'.trace)
        /\ ~turn'.in.checkout_ok
        /\ turn'.in.raise_at = "none")
       => IF turn'.in.ci_fix
          THEN /\ Len(turn'.posted) >= 1
               /\ Last(turn'.posted) = "failed to checkout existing branch"
               /\ Range(turn'.trace)
                     \cap {"create_branch", "agent", "commit", "push", "create_pr"} = {}
               /\ gh'.branches = gh.branches
               /\ gh'.prs = gh.prs
          ELSE /\ "create_branch" \in Range(turn'.trace)
               /\ turn'.in.create_ok
                    => /\ turn'.branch \notin gh.branches \cup {NoBranch}
                       /\ ~turn'.is_update
                       /\ ("push" \in Range(turn'.trace) /\ turn'.in.push_ok)
                            => /\ "create_pr" \in Range(turn'.trace)
                               /\ turn'.in.pr_ok
                                    => /\ Len(gh'.prs) = Len(gh.prs) + 1
                                       /\ Last(gh'.prs).head = turn'.branch
                                       /\ Last(gh'.prs).open]_vars

\* the place of a step in the order of the pipeline
StepRank(s) ==
    CASE s = "mkdtemp" -> 0
      [] s = "clone" -> 1
      [] s = "checkout" -> 2
      [] s = "create_branch" -> 3
      [] s = "agent" -> 4
      [] s = "commit" -> 5
      [] s = "push" -> 6
      [] s = "create_pr" -> 7
      [] s = "rmtree" -> 9

\* the steps of a trace without the comments
StepsOf(trace) == SelectSeq(trace, LAMBDA s : s # "comment")

\* C16: within one coder turn of run_from_plan or of the runner the steps run
\* in the order clone, branch, agent, commit, push, PR creation, outcome
\* comment, each at most once; push is attempted only if the commit reported
\* changes, PR creation only if the push succeeded and the turn is not an
\* update; a failed push ends the turn with the 'failed to push' comment and
\* without PR creation.
C16_StepOrder ==
    [][(IsCoderStep /\ turn'.entry \in EntryPoints)
       => LET steps == StepsOf(turn'.trace)
              did(s) == s \in Range(turn'.trace)
          IN /\ \A i, j \in 1..Len(steps) :
                   i < j => StepRank(steps[i]) < StepRank(steps[j])
             /\ did("agent") => did("clone") /\ (did("checkout") \/ did("create_branch"))
             /\ did("commit") => did("agent")
             /\ did("push") => did("commit") /\ turn'.commit = "committed"
             /\ did("create_pr")
                  => did("push") /\ turn'.in.push_ok /\ ~turn'.is_update
             /\ Len(gh'.prs) # Len(gh.prs) => did("create_pr")
             /\ gh'.branches # gh.branches => did("push") /\ turn'.in.push_ok
             /\ (InPipeline(turn') /\ ~turn'.raised)
                  => /\ Count(turn'.trace, "comment") = 2
                     /\ turn'.trace[Len(turn'.trace) - 1] = "comment"
             /\ (did("push") /\ ~turn'.in.push_ok /\ ~turn'.raised)
                  => /\ Last(turn'.posted) = "failed to push changes"
                     /\ ~did("create_pr")
                     /\ gh'.prs = gh.prs]_vars

C16_Witness ==
    /\ turn.kind = "coder" /\ turn.entry = "run_from_plan"
    /\ turn.trace = <<"mkdtemp", "comment", "clone", "create_branch", "agent",
                      "commit", "push", "create_pr", "comment", "rmtree">>
    /\ Last(turn.posted) = "completed implementation"

\* C17: a coder turn reports 'completed but made no changes' only when the
\* working tree had nothing to commit; a failure of git add or git commit is
\* reported as a failure of its own, never as 'no changes'.
C17_NoChangesOnlyWhenClean ==
    [][(IsCoderStep /\ turn'.entry \in EntryPoints)
       => /\ "completed but made no changes" \in Range(turn'.posted)
               => turn'.commit = "clean"
          /\ (turn'.commit \in {"add_failed", "commit_failed"} /\ ~turn'.raised)
               => Last(turn'.posted) # "completed but made no changes"]_vars

(***************************************************************************)
(* Properties of the pure functions (SpecPure).                            *)
(***************************************************************************)
\* coder-agent/issue-<n>-<8 hex chars>
IsAgentBranch(ref, n) ==
    /\ StartsWith(ref, BranchPrefix(n))
    /\ Len(ref) = Len(BranchPrefix(n)) + 8
    /\ \A i \in (Len(BranchPrefix(n)) + 1)..Len(ref) : ref[i] \in HexChars

\* C18: outside CI-fix mode determine_branch_for_issue(n) returns
\* is_update = true exactly when some open PR has a head ref of the form
\* coder-agent/issue-<n>-<8 hex chars>, the branch returned being such a head
\* ref of issue n; otherwise it returns a fresh name of that form with
\* is_update = false.
C18_BranchReuse ==
    (turn.kind = "determine_branch_for_issue" /\ ~gh.is_ci_fix_mode)
    => LET n == gh.issue_number
           heads == {gh.prs[i].head_ref : i \in {j \in 1..Len(gh.prs) : gh.prs[j].open}}
           matching == {ref \in heads : IsAgentBranch(ref, n)}
       IN /\ turn.result.is_update <=> matching # {}
          /\ turn.result.is_update => turn.result.branch_name \in matching
          /\ ~turn.result.is_update
               => /\ turn.result.branch_name = BranchPrefix(n) \o gh.hex
                  /\ IsAgentBranch(turn.result.branch_name, n)

\* C19: when the comments have different creation times, _load_latest_plan
\* returns the payload of the newest comment among those that decode, in
\* whatever order the comments are supplied; comments under the marker whose
\* JSON is malformed are skipped; None is returned only when no comment
\* decodes.
C19_LatestDecodablePlan ==
    (/\ turn.kind = "_load_latest_plan"
     /\ \A i, j \in 1..Len(gh.comments) :
           i # j => gh.comments[i].at # gh.comments[j].at)
    => LET cs == gh.comments
           decoding == {i \in 1..Len(cs) : _extract_plan(cs[i]) # "None"}
           newest == CHOOSE i \in decoding : \A j \in decoding : cs[j].at <= cs[i].at
       IN IF decoding = {} THEN turn.result = "None"
          ELSE turn.result = _extract_plan(cs[newest])

\* C20: _extract_plan applied to the comment body run_planner_async builds for
\* a plan P returns P, and _parse_reviewer_feedback applied to the output of
\* _format_review_comment returns the status, iteration, max_iterations and
\* issues of the decision.
C20_RoundTrip ==
    /\ turn.kind = "_extract_plan" => turn.result = Value(gh.plan)
    /\ turn.kind = "_parse_reviewer_feedback"
         => turn.result = Value([status |-> gh.decision.status,
                                 iteration |-> gh.decision.iteration,
                                 max_iterations |-> gh.decision.max_iterations,
                                 issues |-> gh.decision.issues])

\* the text the expression captures from a body
BlockOf(body) == ReSearch(body)

\* C21: _extract_plan, _extract_ci_feedback and _parse_reviewer_feedback return
\* None and do not raise for a body without their marker, for a body with the
\* marker and no fenced json block, and for a body with the marker and a
\* fenced block whose content is not valid JSON.
C21_MalformedIsNone ==
    (/\ turn.kind = "decode"
     /\ \/ MarkerOf(gh.decoder) \notin Range(gh.body)
        \/ BlockOf(gh.body) = <<>>
        \/ JsonLoads(BlockOf(gh.body)) # "ok")
    => turn.result = NoValue

\* C22: chat_with_tools and create_text make at most MAX_RETRIES attempts per
\* call; an attempt is followed by another only after a transient error and
\* only if attempts remain, after a delay of RETRY_DELAY_SECONDS times the
\* number of the attempt; a non-transient error propagates from the attempt it
\* occurs in, and so does a transient error on the last attempt.
C22_RetryPolicy ==
    (turn.kind \in {"create_text", "chat_with_tools"})
    => LET r == turn.result
           o == gh.outcomes
       IN /\ r.attempts \in 1..MAX_RETRIES
          /\ Len(r.delays) = r.attempts - 1
          /\ \A a \in 1..(r.attempts - 1) :
                /\ ~o[a].ok /\ o[a].transient
                /\ r.delays[a] = RETRY_DELAY_SECONDS * a
          /\ r.raised <=> ~o[r.attempts].ok
          /\ r.raised => r.error = o[r.attempts]
          /\ (~o[1].ok /\ ~o[1].transient) => r.attempts = 1 /\ r.raised

\* C29: every decision a reviewer publishes has the status APPROVED or
\* CHANGES_REQUESTED, and the event of the PR review is APPROVE exactly when
\* the status is APPROVED and REQUEST_CHANGES otherwise.
C29_PublishedStatus ==
    (turn.kind \in {"run_reviewer_async", "run_reviewer"} /\ turn.result.published)
    => /\ turn.result.status \in ReviewStatuses
       /\ turn.result.event = "APPROVE" <=> turn.result.status = "APPROVED"
       /\ turn.result.event \in {"APPROVE", "REQUEST_CHANGES"}

\* the same for the reviewer of github_agents alone
C29_PublishedStatusOfAgent ==
    (turn.kind = "run_reviewer_async" /\ turn.result.published)
    => /\ turn.result.status \in ReviewStatuses
       /\ turn.result.event = "APPROVE" <=> turn.result.status = "APPROVED"
       /\ turn.result.event \in {"APPROVE", "REQUEST_CHANGES"}

\* C30: build_plan returns, for every outcome of the LLM call, a Plan with
\* a summary that is not empty and at least one step, and never raises.
C30_PlanNeverEmpty ==
    turn.kind \in {"build_plan", "build_plan_async"}
    => /\ ~turn.result.raised
       /\ turn.result.summary # <<>>
       /\ turn.result.steps # <<>>

\* the same for build_plan of planner.py when the answer holds a step that is
\* not blank, or is no object with a list of steps
C30_PlanNotEmptyWithAStep ==
    (/\ turn.kind = "build_plan"
     /\ gh.llm.steps.t = "list"
           => \E i \in DOMAIN gh.llm.steps.v : StripText(ToStr(gh.llm.steps.v[i])) # <<>>)
    => /\ ~turn.result.raised
       /\ turn.result.summary # <<>>
       /\ turn.result.steps # <<>>

(***************************************************************************)
(* Properties of the reviews of one PR over poll cycles (SpecReviews).     *)
(***************************************************************************)
\* C25: for one PR, the number of reviewer turns that published a decision
\* never exceeds MAX_ITERATIONS over a run of the watcher.
C25_AtMostMaxReviews ==
    \A n \in DOMAIN hist.reviewed : hist.reviewed[n] <= MAX_ITERATIONS

(***************************************************************************)
(* Properties of the state dict over poll cycles (SpecCursors).            *)
(***************************************************************************)
\* C26: at the end of every poll cycle the file holds the cursors of the
\* state dict, and a cycle in which a check raised leaves the cursors of the
\* state dict as they were when the cycle started.
C26_SavedAndUntouchedOnError ==
    [][/\ watcher'.cycles # watcher.cycles => watcher'.file = watcher'.state
       /\ watcher'.ended = "raised" /\ watcher'.cycles # watcher.cycles
            => watcher'.state = watcher.start]_vars

\* the cycles that end with _save_state write what the state dict holds
C26_SavedWhenNothingRaises ==
    [][(watcher'.cycles # watcher.cycles /\ watcher'.ended = "saved")
         => watcher'.file = watcher'.state]_vars

(***************************************************************************)
(* Properties of two coder turns at once (SpecRace).                       *)
(***************************************************************************)
BothRanFrom(n) ==
    /\ turn.kind = "race"
    /\ \A p \in Turns : turn.procs[p].pc = "ran" /\ turn.procs[p].current = n

\* C27: when two overlapping coder turns both read iteration N, both store
\* iteration-(N+1): the two turns run, the issue carries iteration-(N+1) and
\* no label above it, and unless a removal failed the counter reads N+1.
C27_LostIncrement ==
    \A n \in 0..MAX_DEV_ITERATIONS :
        BothRanFrom(n)
        => /\ IterationLabel(n + 1) \in Range(gh.labels)
           /\ \A l \in IterationLabels(gh.labels) : l.suf <= n + 1
           /\ ~turn.rm_failed
                => /\ _get_iteration_count(gh.labels) = n + 1
                   /\ IterationLabels(gh.labels) = {IterationLabel(n + 1)}

C27_Witness ==
    /\ BothRanFrom(turn.start)
    /\ turn.start = 2
    /\ ~turn.rm_failed
    /\ _get_iteration_count(gh.labels) = turn.start + 1

(***************************************************************************)
(* Properties of the detection of new issues (SpecIssues).                 *)
(***************************************************************************)
\* the issues of the last listing that the cycle had to hand to the planner
DueIssues ==
    {turn.listed[i].number : i \in
        {i \in 1..Len(turn.listed) :
            /\ ~turn.listed[i].is_pull_request
            /\ turn.listed[i].user_login \notin SkippedAuthors
            /\ (turn.last_seen = 0 \/ turn.listed[i].created_at > turn.last_seen)}}

\* C28: while no planner turn raises, a poll cycle hands every open issue
\* that is no pull request, is not written by a skipped bot and was created
\* after the cursor the cycle started with to the planner, and no issue is
\* ever handed to the planner twice.
C28_PlannedExactlyOnce ==
    (turn.kind = "issues" /\ ~hist.raised)
    => /\ \A n \in DueIssues : hist.planned[n] = 1
       /\ \A n \in 1..MaxIssues : hist.planned[n] <= 1

\* the same for cycles whose due issues carry different times
C28_PlannedOnceWithoutTies ==
    (/\ turn.kind = "issues"
     /\ ~hist.raised
     /\ \A i, j \in 1..Len(gh.issues) :
           (i # j /\ ~gh.issues[i].is_pull_request /\ ~gh.issues[j].is_pull_request
            /\ gh.issues[i].user_login \notin SkippedAuthors
            /\ gh.issues[j].user_login \notin SkippedAuthors)
           => gh.issues[i].created_at # gh.issues[j].created_at)
    => /\ \A n \in DueIssues : hist.planned[n] = 1
       /\ \A n \in 1..MaxIssues : hist.planned[n] <= 1

(***************************************************************************)
(* Properties of the tool loop of the coder (SpecAgent).                   *)
(***************************************************************************)
\* C23: _run_agent_loop ends, by a return or by the exception of a call, after
\* at most MAX_AGENT_ITERATIONS LLM calls; it returns the summary right after
\* the tool call that ran mark_complete, with no tool call and no LLM call
\* after it, and when it returns without mark_complete having been called it
\* returns the 'Max iterations reached' result after MAX_AGENT_ITERATIONS
\* iterations.
C23_LoopEnds ==
    /\ [](/\ turn.llm_calls <= MAX_AGENT_ITERATIONS
          /\ turn.completion_summary # <<>>
               => /\ turn.pc = "returned"
                  /\ turn.result = "summary"
                  /\ turn.after_complete = 0
          /\ (turn.pc = "returned" /\ turn.completion_summary = <<>>)
               => /\ turn.result = "Max iterations reached"
                  /\ turn.iteration = MAX_AGENT_ITERATIONS)
    /\ <>(turn.pc \in {"returned", "raised"})

C23_Witness ==
    /\ turn.kind = "agent_loop"
    /\ turn.pc = "returned"
    /\ turn.result = "summary"
    /\ turn.pending # <<>>
    /\ turn.llm_calls = MAX_AGENT_ITERATIONS

(***************************************************************************)
(* Properties of the file tools of the coder (SpecFiles).                  *)
(***************************************************************************)
\* where the path of the last call leads, from the workdir it was given in
LeadsTo == Realpath(turn.before.fs, Join(turn.before.workdir, turn.path), turn.path.parts)

\* C24: every operation of FileWorkspace given a path that is absolute or
\* that resolves outside the workspace root returns ok = false and changes
\* neither the file system nor the workdir; write_file of the common tools
\* does the same for a path that resolves outside the root; and the workdir
\* is always inside the root.
C24_PathConfined ==
    /\ (turn.kind = "files" /\ turn.op \in FileOps
        /\ (turn.path.absolute \/ ~IsPrefix(Root, LeadsTo)))
       => (~turn.r.ok /\ ~turn.r.raised /\ turn.ws = turn.before)
    /\ (turn.kind = "files" /\ turn.op = "write_file_tool"
        /\ ~IsPrefix(Root, Realpath(turn.before.fs, Join(Root, turn.path), turn.path.parts)))
       => (~turn.r.ok /\ ~turn.r.raised /\ turn.ws = turn.before)
    /\ turn.kind = "files"
       => /\ IsPrefix(Root, turn.ws.workdir)
          /\ \A q \in turn.ws.fs.dirs \cup DOMAIN turn.ws.fs.files :
                IsPrefix(Root, q) \/ q \in turn.before.fs.dirs \cup DOMAIN turn.before.fs.files
          /\ turn.ws.fs.files[Outside \o <<"f">>] = <<"x">>

\* a write through the link to the outside directory, given from a workdir
\* that an earlier set_workdir moved
C24_Witness ==
    /\ turn.kind = "files"
    /\ turn.op = "write_file"
    /\ ~turn.path.absolute
    /\ turn.path.parts = <<"..", "l">>
    /\ turn.before.workdir = Root \o <<"a">>
    /\ LeadsTo = Outside
    /\ ~turn.r.ok

(***************************************************************************)
(* Properties of the reviewer turn (SpecReviewer).                         *)
(***************************************************************************)
LastComment(g) == g.comments[Len(g.comments)]

\* the decision comment the turn posted on its PR carries the turn's result
Published(status) ==
    /\ LastComment(gh).on = turn.pr
    /\ LastComment(gh).marker = REVIEWER_FEEDBACK_MARKER
    /\ LastComment(gh).status = status
    /\ turn.status = status

CiOverridePublished ==
    /\ Published("CHANGES_REQUESTED")
    /\ turn.issues = turn.llm_issues \o <<CiFailingNotice>>
    /\ turn.event = "REQUEST_CHANGES"

\* C5 as stated: below MAX_ITERATIONS, when some check run of the PR is
\* completed with a conclusion outside {success, skipped, neutral} and the LLM
\* decision is APPROVED, the turn publishes CHANGES_REQUESTED, the LLM's issues
\* followed by the CI entry, and the event REQUEST_CHANGES.
C5_AnyCheckRunOfThePr ==
    (/\ turn.kind = "reviewer"
     /\ turn.iteration < MAX_ITERATIONS
     /\ turn.llm = "APPROVED"
     /\ \E i \in 1..Len(turn.pr_checks) :
           /\ turn.pr_checks[i].status = "completed"
           /\ turn.pr_checks[i].conclusion \notin {"success", "skipped", "neutral"})
    => CiOverridePublished

\* C5 amended: the same, for a check run that the turn fetched and whose name
\* does not contain "reviewer".
C5_CiOverride ==
    (/\ turn.kind = "reviewer"
     /\ turn.iteration < MAX_ITERATIONS
     /\ turn.llm = "APPROVED"
     /\ turn.ci_fetched
     /\ \E i \in 1..Len(turn.pr_checks) :
           /\ ~turn.pr_checks[i].reviewer
           /\ turn.pr_checks[i].status = "completed"
           /\ turn.pr_checks[i].conclusion \notin {"success", "skipped", "neutral"})
    => CiOverridePublished

C5_Witness ==
    /\ turn.kind = "reviewer"
    /\ turn.iteration = MAX_ITERATIONS - 1
    /\ turn.llm = "APPROVED"
    /\ turn.llm_issues = <<"issue A", "issue B">>
    /\ turn.ci_fetched
    /\ turn.pr_checks = <<CheckRun(FALSE, "completed", "success"),
                          CheckRun(FALSE, "completed", "cancelled")>>
    /\ turn.status = "CHANGES_REQUESTED"

(***************************************************************************)
(* Properties of the poll loop (Spec).                                     *)
(***************************************************************************)
Dispatches(h, id) == Get(h.coded, id, 0)

PlanTriggers(g) ==
    {c \in Range(g.comments) : c.on = ISSUE /\ c.marker = PLAN_MARKER}

\* the feedback comments on open PRs that ask the coder for another round
FeedbackTriggers(g) ==
    {c \in Range(g.comments) :
        /\ c.on \in PrNumbers(g)
        /\ PrByNumber(g, c.on).open
        /\ PrByNumber(g, c.on).ref # 0
        /\ c.marker = REVIEWER_FEEDBACK_MARKER
        /\ c.block = "object"
        /\ c.status = "CHANGES_REQUESTED"
        /\ c.iteration < c.max_iterations}

\* the cursor a state dict holds for the issue or PR a comment is on
CursorOf(state, c) ==
    IF c.on = ISSUE THEN Get(state.last_seen_plans, ISSUE, 0)
    ELSE Get(state.last_seen_feedback, c.on, 0)

\* C4 (its closing part): with nothing from outside after the issue is opened,
\* no stop of the process and no step or provider call that fails, once an
\* APPROVED decision is published or the coder has posted the max-iterations
\* comment, no further coder turn is dispatched for the issue.
C4_NoCoderTurnAfterTerminal ==
    [][(hist.terminal /\ hist'.crashes = 0 /\ hist'.mishaps = 0)
       => hist'.coder_turns = hist.coder_turns]_vars

\* C6: while every poll cycle completes, each plan comment and each feedback
\* comment causes at most one coder dispatch over all cycles, and a comment
\* whose id is <= the stored cursor of its issue or PR is not dispatched again.
C6_DispatchedAtMostOnce ==
    /\ [](hist.crashes = 0
            => \A c \in PlanTriggers(gh) \cup FeedbackTriggers(gh) :
                  Dispatches(hist, c.id) <= 1)
    /\ [][\A c \in Range(gh.comments) :
              c.id <= CursorOf(watcher.state, c)
                 => Dispatches(hist', c.id) = Dispatches(hist, c.id)]_vars

C6_Witness ==
    /\ hist.crashes = 0
    /\ hist.mishaps = 0
    /\ hist.cycles >= 2
    /\ \E c \in PlanTriggers(gh), f \in FeedbackTriggers(gh) :
          /\ Dispatches(hist, c.id) = 1
          /\ Dispatches(hist, f.id) = 1
          /\ c.id <= CursorOf(watcher.file, c)
          /\ f.id <= CursorOf(watcher.file, f)

\* C7: an open PR that nothing but the reviewer has touched since it was
\* created is reviewed exactly once by the poll loop: what the reviewer turn
\* posts on the PR does not make _check_pr_updates review it again (no stop
\* of the process, no step or provider call that fails).
C7_ReviewedOnce ==
    (hist.crashes = 0 /\ hist.mishaps = 0)
    => \A n \in PrNumbers(gh) \ hist.pushed_to : Get(hist.reviewed, n, 0) <= 1

\* C8: the cursors in .watcher_state.json never pass a trigger that was not
\* dispatched; a check dispatches every trigger beyond the cursor it holds and
\* moves a cursor only over what it dispatched; a restart takes the cursors
\* from the file, so a trigger dispatched before a stop that came before
\* _save_state is dispatched again.
PersistedBehindDispatch ==
    /\ \A c \in PlanTriggers(gh) \cup FeedbackTriggers(gh) :
          c.id <= CursorOf(watcher.file, c) => Dispatches(hist, c.id) >= 1
    /\ watcher.file.last_issue_created_at >= IssueCreatedAt => hist.planned >= 1
    /\ \A n \in DOMAIN watcher.file.last_seen_pr_updates :
          <<n, watcher.file.last_seen_pr_updates[n]>> \in hist.reviewed_at

DetectedAndDispatched ==
    /\ \A c \in PlanTriggers(gh) \cup FeedbackTriggers(gh) :
          (c.id > CursorOf(watcher.state, c) /\ c.id <= CursorOf(watcher'.state, c))
             => Dispatches(hist', c.id) = Dispatches(hist, c.id) + 1
    /\ (watcher.pc = "plans" /\ watcher'.pc = "prs")
          => \A c \in PlanTriggers(gh) : c.id <= CursorOf(watcher'.state, c)
    /\ (watcher.pc = "issues" /\ watcher'.pc = "plans"
            /\ watcher.state.last_issue_created_at < IssueCreatedAt)
          => hist'.planned = hist.planned + 1
    /\ (watcher.pc = "prs" /\ watcher'.pc = "feedback")
          => \A i \in 1..Len(gh.prs) :
                (/\ gh.prs[i].open
                 /\ gh.prs[i].updated_at >
                       Get(watcher.state.last_seen_pr_updates, gh.prs[i].number, 0))
                => Get(hist'.reviewed, gh.prs[i].number, 0)
                     = Get(hist.reviewed, gh.prs[i].number, 0) + 1
    /\ hist'.crashes > hist.crashes => watcher'.state = watcher.file

IsGitCall(fn) == hist'.calls = hist.calls + 1 /\ turn'.fn = fn

GitHelpers ==
    {"_clone_repository", "_git_create_branch", "_git_checkout_existing_branch",
     "_git_commit", "_git_push"}

\* C31: a call of _clone_repository, _git_create_branch,
\* _git_checkout_existing_branch, _git_commit or _git_push in which a git
\* process failed returns False; no call raises.
C31_GitFailureReturnsFalse ==
    turn.kind = "git" /\ turn.fn \in GitHelpers
        => /\ turn.result # "raised"
           /\ turn.failed => turn.result = "false"

\* Every helper returns False when its git process exits with a code other
\* than 0, and True only when every process exited 0.
C31_NonzeroExitReturnsFalse ==
    turn.kind = "git" /\ turn.fn \in GitHelpers /\ ~turn.unstarted
        => /\ turn.result \in {"true", "false"}
           /\ turn.failed => turn.result = "false"

CleanTree(repo) == repo.cloned /\ ~repo.index /\ ~repo.tree

\* C32: _git_commit called on a clone whose working tree has no changes
\* creates no commit, leaves the repository as it was and returns False (it
\* returns nothing only where a git process could not be started); called
\* again right after, with no file changed in between, it does the same.
C32_CleanCommitIsNoOp ==
    [][/\ IsGitCall("_git_commit") /\ CleanTree(gh)
          => /\ gh' = gh
             /\ turn'.result # "true"
             /\ ~turn'.unstarted => turn'.result = "false"
       /\ /\ turn.fn = "_git_commit" /\ turn.result = "false" /\ CleanTree(turn.before)
          /\ IsGitCall("_git_commit")
          => /\ gh' = gh
             /\ gh'.commits = turn.before.commits
             /\ turn'.result # "true"
             /\ ~turn'.unstarted => turn'.result = "false"]_vars

\* the second of two calls in a row on a clean tree has returned False, after
\* a commit was made earlier in the clone
C32_Witness ==
    /\ turn.fn = "_git_commit" /\ turn.result = "false" /\ ~turn.failed
    /\ CleanTree(turn.before) /\ gh = turn.before
    /\ gh.commits = 1
    /\ hist.calls = MaxGitCalls


(***************************************************************************)
(* Properties of decoding around the marker (SpecPure).                    *)
(***************************************************************************)
\* C33: the payload a decoder returns is that of the first fenced json block
\* after the marker; a fenced json block standing before the marker in the
\* comment body is never returned.
C33_PayloadFollowsMarker ==
    turn.kind = "decode_marked" /\ turn.result.ok
        => /\ gh.after # <<>>
           /\ turn.result.value = gh.after[1]

\* Where no fenced json block stands before the marker, the payload is that
\* of the first of the blocks after it, and without a block nothing is
\* decoded; where one stands before the marker, it is the payload.
C33_FirstBlockOfBody ==
    turn.kind = "decode_marked"
        => IF gh.before # <<>> THEN turn.result = Value(gh.before)
           ELSE IF gh.after # <<>> THEN turn.result = Value(gh.after[1])
           ELSE turn.result = NoValue


(***************************************************************************)
(* Properties of the dispatch from reviewer feedback (SpecFeedback).       *)
(***************************************************************************)
\* the comments for which _check_reviewer_feedback starts a coder turn in
\* this step
DispatchedFrom ==
    {id \in 1..Len(gh.comments) :
        watcher.pc = "feedback" /\ Get(hist'.coded, id, 0) > Get(hist.coded, id, 0)}

PrOf(c) == PrByNumber(gh, c.on)

\* C34: _check_reviewer_feedback starts a coder turn from a comment only when
\* the comment decodes to feedback whose status is CHANGES_REQUESTED and whose
\* iteration is less than its max_iterations and the body of the PR names an
\* issue; feedback that is APPROVED or has iteration >= max_iterations starts
\* none.
C34_DispatchOnlyOnChangesRequested ==
    [][\A id \in DispatchedFrom :
          LET feedback == _parse_reviewer_feedback(gh.comments[id])
          IN /\ feedback.found
             /\ feedback.status = "CHANGES_REQUESTED"
             /\ feedback.status # "APPROVED"
             /\ feedback.iteration < feedback.max_iterations
             /\ PrOf(gh.comments[id]).ref # 0]_vars

\* a coder turn has been started from feedback 3/5 that requests changes
C34_Witness ==
    \E id \in DOMAIN hist.coded :
        /\ id <= Len(gh.comments)
        /\ gh.comments[id].marker = REVIEWER_FEEDBACK_MARKER
        /\ gh.comments[id].status = "CHANGES_REQUESTED"
        /\ gh.comments[id].iteration = 3
        /\ gh.comments[id].max_iterations = 5
        /\ turn.kind = "coder"


(***************************************************************************)
(* Properties of the reviewer turn's reads (SpecReviewer).                 *)
(***************************************************************************)
\* the value of the first iteration label of the list whose suffix is a
\* number, 1 when the list has none
ParsedLabels(labels) ==
    {i \in 1..Len(labels) : IsIterationLabel(labels[i]) /\ labels[i].suf >= 0}

LabelValueOrOne(labels) ==
    IF ParsedLabels(labels) = {} THEN 1 ELSE labels[SetMin(ParsedLabels(labels))].suf

LinkedIssue == PrByNumber(gh, turn.pr).ref

\* C35 as stated: the iteration a reviewer turn publishes is the value of the
\* linked issue's iteration label, 1 when the issue has no such label or the
\* PR links no issue, and the turn leaves the labels as they were.
C35_PublishesLabelValue ==
    turn.kind = "reviewer"
        => /\ gh.labels = turn.before
           /\ LastComment(gh).iteration = turn.iteration
           /\ turn.iteration = IF LinkedIssue = 0 THEN 1 ELSE LabelValueOrOne(gh.labels)

\* C35 amended: the same, with 1 published as well when the linked issue or
\* its labels could not be fetched.
C35_PublishesFetchedLabelValue ==
    turn.kind = "reviewer"
        => /\ gh.labels = turn.before
           /\ LastComment(gh).iteration = turn.iteration
           /\ turn.iteration = IF LinkedIssue = 0 \/ ~turn.issue_fetched THEN 1
                               ELSE LabelValueOrOne(gh.labels)

\* a turn that fetched the issue has published 3 for the label iteration-3
C35_Witness ==
    /\ turn.kind = "reviewer"
    /\ turn.issue_fetched
    /\ gh.labels = <<BugLabel, IterationLabel(3)>>
    /\ turn.before = gh.labels
    /\ LastComment(gh).iteration = 3

\* C36: a reviewer turn that could not fetch the diff or the check runs goes
\* on with the placeholder text, takes the check runs as none, so that the CI
\* override does not fire, and publishes its decision comment.
C36_FetchFailureDegrades ==
    turn.kind = "reviewer"
        => /\ Published(turn.status)
           /\ turn.diff_summary \in {"diff summary", "Could not fetch diff."}
           /\ ~turn.ci_fetched
                 => /\ turn.ci_status = "Could not fetch CI status."
                    /\ ~turn.ci_failing
                    /\ turn.llm = "APPROVED" => turn.status = "APPROVED"

\* neither the diff nor the check runs could be fetched, one of the PR's check
\* runs has failed, and the turn has published the LLM's APPROVED
C36_Witness ==
    /\ turn.kind = "reviewer"
    /\ turn.diff_summary = "Could not fetch diff."
    /\ ~turn.ci_fetched
    /\ turn.pr_checks = <<CheckRun(FALSE, "completed", "failure")>>
    /\ turn.iteration < MAX_ITERATIONS
    /\ turn.llm = "APPROVED"
    /\ Published("APPROVED")


(***************************************************************************)
(* Properties of the reviewer's tool loop (SpecReviewTools).               *)
(***************************************************************************)
\* C37: _create_review_with_tools calls the LLM at most 10 times and returns
\* a string whatever the responses are, also when each of the 10 responses
\* holds tool calls and no text.
C37_ReturnsString ==
    /\ [](turn.kind = "review_tools"
             => /\ turn.llm_calls <= 10
                /\ turn.pc # "raised"
                /\ turn.pc = "returned" => turn.result = "str")
    /\ <>(turn.pc = "returned")

\* The loop calls the LLM at most 10 times and ends; it returns a string
\* unless the tenth response holds tool calls and the content None.
C37_AtMostTenCalls ==
    /\ [](turn.kind = "review_tools"
             => /\ turn.llm_calls <= 10
                /\ turn.pc = "returned" => turn.result = "str"
                /\ turn.pc = "raised"
                      => /\ turn.llm_calls = 10
                         /\ turn.had_tool_calls
                         /\ turn.content = "None")
    /\ <>(turn.pc \in {"returned", "raised"})


(***************************************************************************)
(* Properties of the labels after two overlapping coder turns (SpecRace).  *)
(***************************************************************************)
\* both turns have stored their label and gone on to the pipeline
BothStored == \A p \in Turns : turn.procs[p].pc \in {"pipeline", "ran"}

\* C38: however the label steps of two overlapping coder turns interleave,
\* once both have stored their label, no removal having failed, the issue
\* carries exactly one iteration label and the counter is not below its value
\* before the two turns.
C38_OneLabelNotLower ==
    BothStored /\ ~turn.rm_failed
        => /\ Cardinality(IterationLabels(gh.labels)) = 1
           /\ _get_iteration_count(gh.labels) >= turn.start

\* Once both turns have stored their label, no removal having failed, the
\* issue carries one or two iteration labels and each of them is the label
\* one of the two turns stored, the value that turn read plus one.
C38_LabelsAreStoredOnes ==
    BothStored /\ ~turn.rm_failed
        => /\ Cardinality(IterationLabels(gh.labels)) \in {1, 2}
           /\ \A l \in IterationLabels(gh.labels) :
                 \E p \in Turns : l.suf = turn.procs[p].current + 1

====
